---- MODULE Spec2Model ----
(***************************************************************************)
(* Verification model of the mavin_fetcher core: path resolution, folder   *)
(* scanning, filename parsing, occurrence indexing, fetch and labeling.    *)
(*                                                                         *)
(* Strings are sequences of one-character strings, so that the string      *)
(* operations of the code (endswith, in, split, lower, isdigit, strip)     *)
(* are computed and not assumed.  A path is a sequence of components,      *)
(* each component a string; paths are absolute and free of symlinks, so    *)
(* Path.expanduser().resolve() leaves them as they are.                    *)
(***************************************************************************)
EXTENDS Integers, Sequences, FiniteSets, TLC

VARIABLES
    fsDirs,      \* the set of paths that are directories
    fsFiles,     \* function: path of a regular file -> its content
    pc,          \* position of the running operation
    arg,         \* the inputs of the operation under check
    res,         \* the last call: what was called, with what, what it returned
    res_before,  \* the call before the last one
    fs_before,   \* the filesystem as it was when the last call started
    view_index,  \* the viewer's ViewIndex snapshot (_index)
    undo_stack,  \* the viewer's _undo_stack of LabelActions
    issued,      \* every LabelAction apply_label has returned so far
    nops,        \* number of label / undo calls made
    loc,         \* the local variables of the running engine call
    cancel,      \* the worker's _cancel flag, read by is_cancelled()
    progress_log \* the progress / detail_progress callbacks made, in order

vars == <<fsDirs, fsFiles, pc, arg, res, res_before, fs_before, view_index,
          undo_stack, issued, nops, loc, cancel, progress_log>>

(***************************************************************************)
(* Characters and strings                                                  *)
(***************************************************************************)
UpperAlpha == <<"A","B","C","D","E","F","G","H","I","J","K","L","M",
                "N","O","P","Q","R","S","T","U","V","W","X","Y","Z">>
LowerAlpha == <<"a","b","c","d","e","f","g","h","i","j","k","l","m",
                "n","o","p","q","r","s","t","u","v","w","x","y","z">>
Digits == <<"0","1","2","3","4","5","6","7","8","9">>

\* code-point order of the characters the model uses
CodeOrder == <<" ", "#", "(", ")", "+", "-", ".", "/">> \o Digits \o <<":">> \o UpperAlpha
             \o <<"\\", "_">> \o LowerAlpha

IndexIn(c, tbl) == IF \E i \in 1..Len(tbl) : tbl[i] = c
                   THEN CHOOSE i \in 1..Len(tbl) : tbl[i] = c
                   ELSE 0

Ord(c) == IndexIn(c, CodeOrder)

IsUpperChar(c) == IndexIn(c, UpperAlpha) > 0
IsLowerChar(c) == IndexIn(c, LowerAlpha) > 0
IsDigitChar(c) == IndexIn(c, Digits) > 0
IsAlphaChar(c) == IsUpperChar(c) \/ IsLowerChar(c)
IsSpaceChar(c) == c = " "

LowerChar(c) == IF IsUpperChar(c) THEN LowerAlpha[IndexIn(c, UpperAlpha)] ELSE c
UpperChar(c) == IF IsLowerChar(c) THEN UpperAlpha[IndexIn(c, LowerAlpha)] ELSE c

\* str.lower(), str.upper()
Lower(s) == [i \in 1..Len(s) |-> LowerChar(s[i])]
Upper(s) == [i \in 1..Len(s) |-> UpperChar(s[i])]

\* str.isdigit(), str.isalpha(): non-empty and every character of the class
IsDigitStr(s) == Len(s) > 0 /\ \A i \in 1..Len(s) : IsDigitChar(s[i])
IsAlphaStr(s) == Len(s) > 0 /\ \A i \in 1..Len(s) : IsAlphaChar(s[i])

\* s.endswith(suf), s.startswith(pre), sub in s
EndsWith(s, suf) ==
    /\ Len(suf) <= Len(s)
    /\ SubSeq(s, Len(s) - Len(suf) + 1, Len(s)) = suf
StartsWith(s, pre) ==
    /\ Len(pre) <= Len(s)
    /\ SubSeq(s, 1, Len(pre)) = pre
Contains(s, sub) ==
    \E i \in 1..(Len(s) - Len(sub) + 1) : SubSeq(s, i, i + Len(sub) - 1) = sub

\* position of the first / last occurrence of character c in s, 0 when absent
FirstPos(s, c) == IF \E i \in 1..Len(s) : s[i] = c
                  THEN CHOOSE i \in 1..Len(s) : s[i] = c /\ \A k \in 1..(i-1) : s[k] /= c
                  ELSE 0
LastPos(s, c) == IF \E i \in 1..Len(s) : s[i] = c
                 THEN CHOOSE i \in 1..Len(s) : s[i] = c /\ \A k \in (i+1)..Len(s) : s[k] /= c
                 ELSE 0

\* s.split(c): always at least one part
RECURSIVE Split(_, _)
Split(s, c) ==
    LET p == FirstPos(s, c)
    IN  IF p = 0 THEN <<s>>
        ELSE <<SubSeq(s, 1, p - 1)>> \o Split(SubSeq(s, p + 1, Len(s)), c)

\* s.split(c, 1): the text before the first c and the text after it
Split1(s, c) ==
    LET p == FirstPos(s, c)
    IN  IF p = 0 THEN <<s>>
        ELSE <<SubSeq(s, 1, p - 1), SubSeq(s, p + 1, Len(s))>>

\* c.join(parts)
RECURSIVE Join(_, _)
Join(parts, c) ==
    IF Len(parts) = 0 THEN <<>>
    ELSE IF Len(parts) = 1 THEN parts[1]
    ELSE parts[1] \o <<c>> \o Join(Tail(parts), c)

\* s.strip(): leading and trailing whitespace removed
RECURSIVE LStrip(_)
LStrip(s) == IF Len(s) > 0 /\ IsSpaceChar(s[1]) THEN LStrip(Tail(s)) ELSE s
RECURSIVE RStrip(_)
RStrip(s) == IF Len(s) > 0 /\ IsSpaceChar(s[Len(s)])
             THEN RStrip(SubSeq(s, 1, Len(s) - 1)) ELSE s
Strip(s) == LStrip(RStrip(s))

\* s.rstrip(chars): trailing characters of the set removed
RECURSIVE RStripChars(_, _)
RStripChars(s, chars) ==
    IF Len(s) > 0 /\ s[Len(s)] \in chars
    THEN RStripChars(SubSeq(s, 1, Len(s) - 1), chars) ELSE s

\* s < t and s <= t in Python's string order (code points, shorter prefix first)
RECURSIVE StrLess(_, _)
StrLess(s, t) ==
    IF Len(t) = 0 THEN FALSE
    ELSE IF Len(s) = 0 THEN TRUE
    ELSE IF s[1] = t[1] THEN StrLess(Tail(s), Tail(t))
    ELSE Ord(s[1]) < Ord(t[1])
StrLeq(s, t) == s = t \/ StrLess(s, t)

\* PurePath.stem: the name without its last suffix
Stem(name) ==
    LET i == LastPos(name, ".")
    IN  IF i > 1 /\ i < Len(name) THEN SubSeq(name, 1, i - 1) ELSE name

(***************************************************************************)
(* Words of the code, spelled as strings                                   *)
(***************************************************************************)
W_SourceMap == <<"S","o","u","r","c","e","M","a","p">>
W_ActiveMap == <<"A","c","t","i","v","e","M","a","p">>
W_LOWER == <<"L","O","W","E","R">>
W_UPPER == <<"U","P","P","E","R">>
W_B == <<"B">>
W_L == <<"L">>
W_R == <<"R">>
W_jpg == <<"j","p","g">>
W_jpeg == <<"j","p","e","g">>
W_png == <<"p","n","g">>

SOURCEMAP_SUFFIX == W_SourceMap \o <<".">> \o W_jpg
ACTIVEMAP_SUFFIX == W_ActiveMap \o <<".">> \o W_jpg

(***************************************************************************)
(* FilenameParser                                                          *)
(***************************************************************************)
NoParse == [ok |-> FALSE, cell_key |-> <<>>, region |-> <<>>, map_type |-> <<>>]

ParsedImageName(cell_key, region, map_type) ==
    [ok |-> TRUE, cell_key |-> cell_key, region |-> region, map_type |-> map_type]

\* "_sourcemap." / "_activemap." in lower
map_type_of(lower) ==
    IF Contains(lower, <<"_">> \o Lower(W_SourceMap) \o <<".">>) THEN W_SourceMap
    ELSE IF Contains(lower, <<"_">> \o Lower(W_ActiveMap) \o <<".">>) THEN W_ActiveMap
    ELSE <<>>

has_image_ext(lower) ==
    \/ EndsWith(lower, <<".">> \o W_jpg)
    \/ EndsWith(lower, <<".">> \o W_jpeg)
    \/ EndsWith(lower, <<".">> \o W_png)

\* index (1-based) of the first LOWER / UPPER part, 0 when there is none
side_index(parts) ==
    IF \E i \in 1..Len(parts) : parts[i] \in {W_LOWER, W_UPPER}
    THEN CHOOSE i \in 1..Len(parts) :
            /\ parts[i] \in {W_LOWER, W_UPPER}
            /\ \A k \in 1..(i-1) : parts[k] \notin {W_LOWER, W_UPPER}
    ELSE 0

\* j: the part after the side marker, one purely numeric part skipped
after_digit(parts, idx) ==
    IF idx + 1 <= Len(parts) /\ IsDigitStr(parts[idx + 1]) THEN idx + 2 ELSE idx + 1

\* the fallback: first adjacent "B", L|R in the side marker and the next 5 parts
window_side(parts, idx) ==
    LET hi == IF Len(parts) < idx + 5 THEN Len(parts) ELSE idx + 5
        window == SubSeq(parts, idx, hi)
        hits == {k \in 1..(Len(window) - 1) :
                    window[k] = W_B /\ window[k + 1] \in {W_L, W_R}}
    IN  IF hits = {} THEN <<>>
        ELSE window[(CHOOSE k \in hits : \A m \in hits : k <= m) + 1]

side_of_no_digit(parts, idx) ==
    IF idx + 1 <= Len(parts) /\ parts[idx + 1] = W_B
    THEN IF idx + 2 <= Len(parts) /\ parts[idx + 2] \in {W_L, W_R}
         THEN parts[idx + 2] ELSE <<>>
    ELSE <<>>

\* side letter, <<>> when none is found
side_of(parts, idx) ==
    LET j == after_digit(parts, idx)
    IN  IF j <= Len(parts) /\ parts[j] = W_B
        THEN IF j + 1 <= Len(parts) /\ parts[j + 1] \in {W_L, W_R}
             THEN parts[j + 1] ELSE <<>>
        ELSE window_side(parts, idx)

parse_image_filename(name) ==
    LET lower == Lower(name)
        map_type == map_type_of(lower)
        stem == Stem(name)
        parts == Split(stem, "_")
        idx == side_index(parts)
        side == side_of(parts, idx)
        joined == Strip(Join(SubSeq(parts, 1, idx - 1), "_"))
        cell_key == IF joined = <<>> THEN stem ELSE joined
    IN  IF ~has_image_ext(lower) THEN NoParse
        ELSE IF map_type = <<>> THEN NoParse
        ELSE IF idx = 0 THEN NoParse
        ELSE IF side = <<>> THEN NoParse
        ELSE ParsedImageName(cell_key,
                             parts[idx] \o <<"_">> \o W_B \o <<"_">> \o side,
                             map_type)

(***************************************************************************)
(* The filesystem: a value [ok, dirs, files].  ok is FALSE once a call     *)
(* has raised; further calls on that value do nothing, which is how an     *)
(* exception cuts the rest of a function short.                            *)
(***************************************************************************)
NoPath == <<>>

Parent(p) == SubSeq(p, 1, Len(p) - 1)
BaseName(p) == p[Len(p)]
Prefixes(p) == {SubSeq(p, 1, k) : k \in 1..Len(p)}
IsPrefix(p, q) == Len(p) <= Len(q) /\ SubSeq(q, 1, Len(p)) = p

is_file(f, p) == p \in DOMAIN f.files
is_dir(f, p) == p \in f.dirs
exists(f, p) == is_file(f, p) \/ is_dir(f, p)

Raise(f) == [f EXCEPT !.ok = FALSE]

\* Path.mkdir(parents=True, exist_ok=True)
mkdir_p(f, p) ==
    IF ~f.ok THEN f
    ELSE IF \E q \in Prefixes(p) : is_file(f, q) THEN Raise(f)
    ELSE [f EXCEPT !.dirs = @ \cup Prefixes(p)]

\* Path.unlink()
unlink(f, p) ==
    IF ~f.ok THEN f
    ELSE IF ~is_file(f, p) THEN Raise(f)
    ELSE [f EXCEPT !.files = [q \in (DOMAIN f.files) \ {p} |-> f.files[q]]]

\* shutil.move(src, dst): into dst when dst is a directory, else a rename
move(f, src, dst) ==
    LET real_dst == IF is_dir(f, dst) THEN dst \o <<BaseName(src)>> ELSE dst
        Moved(q) == IF IsPrefix(src, q)
                    THEN real_dst \o SubSeq(q, Len(src) + 1, Len(q)) ELSE q
        stay == {q \in DOMAIN f.files : ~IsPrefix(src, q) /\ q /= real_dst}
        go == {q \in DOMAIN f.files : IsPrefix(src, q)}
    IN  IF ~f.ok THEN f
        ELSE IF ~exists(f, src) THEN Raise(f)
        ELSE IF is_dir(f, dst) /\ exists(f, real_dst) THEN Raise(f)
        ELSE IF ~is_dir(f, Parent(real_dst)) THEN Raise(f)
        ELSE IF is_dir(f, src) /\ exists(f, real_dst) THEN Raise(f)
        ELSE [f EXCEPT
                !.dirs = {Moved(q) : q \in @},
                !.files = [q \in stay \cup {Moved(g) : g \in go} |->
                             IF q \in stay THEN f.files[q]
                             ELSE f.files[CHOOSE g \in go : Moved(g) = q]]]

copy2_keep_existing(f, src, dst) ==
    IF ~f.ok THEN f
    ELSE IF ~is_file(f, src) THEN Raise(f)
    ELSE IF ~is_dir(f, Parent(dst)) \/ is_dir(f, dst) THEN Raise(f)
    ELSE IF is_file(f, dst) THEN f
    ELSE [f EXCEPT !.files = @ @@ (dst :> f.files[src])]

\* shutil.copy2(src, dst): dst created or replaced with the content of src
copy2(f, src, dst) ==
    LET real_dst == IF is_dir(f, dst) THEN dst \o <<BaseName(src)>> ELSE dst
    IN  IF ~f.ok THEN f
        ELSE IF ~is_file(f, src) THEN Raise(f)
        ELSE IF ~is_dir(f, Parent(real_dst)) \/ is_dir(f, real_dst) THEN Raise(f)
        ELSE [f EXCEPT !.files =
                [q \in (DOMAIN f.files) \cup {real_dst} |->
                    IF q = real_dst THEN f.files[src] ELSE f.files[q]]]

\* directory listing: the entries directly inside d
iterdir(f, d) == {p \in f.dirs \cup DOMAIN f.files : Len(p) > 0 /\ Parent(p) = d}

(***************************************************************************)
(* LabelingEngine                                                          *)
(***************************************************************************)
W_HumanReview == <<"H","u","m","a","n","R","e","v","i","e","w">>
W_RealNG == <<"R","e","a","l","N","G">>
W_Overkill == <<"O","v","e","r","k","i","l","l">>
Label == {W_RealNG, W_Overkill}

human_root_from_output(output_dir) == output_dir \o <<W_HumanReview>>

dest_dir_for_swapped(human_root, class_folder, label) ==
    human_root \o <<label>> \o <<class_folder>>

dest_dir_for(human_root, class_folder, label) ==
    human_root \o <<class_folder>> \o <<label>>

ensure_dir(f, p) == mkdir_p(f, p)

NoAction == [label |-> <<>>, class_folder |-> <<>>, cell_key |-> <<>>,
             region |-> <<>>, src_path |-> NoPath, dst_path |-> NoPath]

LabelAction(label, occurrence, src, dst) ==
    [label |-> label, class_folder |-> occurrence.class_folder,
     cell_key |-> occurrence.cell_key, region |-> occurrence.region,
     src_path |-> src, dst_path |-> dst]

\* the result of a call: the filesystem it leaves, the error it raised
\* ("" when it returned) and the value it returned
Returned(f, value) == [fs |-> f, err |-> "", value |-> value]
Raised(f, err, none) == [fs |-> [f EXCEPT !.ok = TRUE], err |-> err, value |-> none]

apply_label_mkdir_first(f, occurrence, label, human_root) ==
    LET src == occurrence.source_path
        dest_dir == dest_dir_for(human_root, occurrence.class_folder, label)
        f1 == ensure_dir(f, dest_dir)
        dst == dest_dir \o <<BaseName(src)>>
        f2 == IF exists(f1, dst) THEN unlink(f1, dst) ELSE f1
        f3 == move(f2, src, dst)
    IN  IF src = NoPath THEN Raised(f1, "ValueError", NoAction)
        ELSE IF ~exists(f1, src) THEN Raised(f1, "FileNotFoundError", NoAction)
        ELSE IF ~f3.ok THEN Raised(f3, "OSError", NoAction)
        ELSE Returned(f3, LabelAction(label, occurrence, src, dst))

apply_label_with_active(f, occurrence, label, human_root) ==
    LET src == occurrence.source_path
        act == occurrence.active_path
        dest_dir == dest_dir_for(human_root, occurrence.class_folder, label)
        f1 == ensure_dir(f, dest_dir)
        dst == dest_dir \o <<BaseName(src)>>
        f2 == IF exists(f1, dst) THEN unlink(f1, dst) ELSE f1
        f3 == move(f2, src, dst)
        f4 == IF act /= NoPath /\ is_file(f3, act)
              THEN move(f3, act, dest_dir \o <<BaseName(act)>>) ELSE f3
    IN  IF src = NoPath THEN Raised(f, "ValueError", NoAction)
        ELSE IF ~exists(f, src) THEN Raised(f, "FileNotFoundError", NoAction)
        ELSE IF ~f4.ok THEN Raised(f4, "OSError", NoAction)
        ELSE Returned(f4, LabelAction(label, occurrence, src, dst))

apply_label(f, occurrence, label, human_root) ==
    LET src == occurrence.source_path
        dest_dir == dest_dir_for(human_root, occurrence.class_folder, label)
        f1 == ensure_dir(f, dest_dir)
        dst == dest_dir \o <<BaseName(src)>>
        f2 == IF exists(f1, dst) THEN unlink(f1, dst) ELSE f1
        f3 == move(f2, src, dst)
    IN  IF src = NoPath THEN Raised(f, "ValueError", NoAction)
        ELSE IF ~exists(f, src) THEN Raised(f, "FileNotFoundError", NoAction)
        ELSE IF ~f3.ok THEN Raised(f3, "OSError", NoAction)
        ELSE Returned(f3, LabelAction(label, occurrence, src, dst))

undo_by_copy(f, action) ==
    LET src_back == action.src_path
        moved == action.dst_path
        f1 == mkdir_p(f, Parent(src_back))
        f2 == IF exists(f1, src_back) THEN unlink(f1, src_back) ELSE f1
        f3 == copy2(f2, moved, src_back)
    IN  IF ~exists(f, moved) THEN Returned(f, TRUE)
        ELSE IF ~f3.ok THEN Raised(f3, "OSError", FALSE)
        ELSE Returned(f3, TRUE)

undo_unguarded(f, action) ==
    LET src_back == action.src_path
        moved == action.dst_path
        f1 == mkdir_p(f, Parent(src_back))
        f2 == IF exists(f1, src_back) THEN unlink(f1, src_back) ELSE f1
        f3 == move(f2, moved, src_back)
    IN  IF ~f3.ok THEN Raised(f3, "OSError", FALSE)
        ELSE Returned(f3, TRUE)

undo_no_mkdir(f, action) ==
    LET src_back == action.src_path
        moved == action.dst_path
        f2 == IF exists(f, src_back) THEN unlink(f, src_back) ELSE f
        f3 == move(f2, moved, src_back)
    IN  IF ~exists(f, moved) THEN Returned(f, TRUE)
        ELSE IF ~f3.ok THEN Raised(f3, "OSError", FALSE)
        ELSE Returned(f3, TRUE)

undo(f, action) ==
    LET src_back == action.src_path
        moved == action.dst_path
        f1 == mkdir_p(f, Parent(src_back))
        f2 == IF exists(f1, src_back) THEN unlink(f1, src_back) ELSE f1
        f3 == move(f2, moved, src_back)
    IN  IF ~exists(f, moved) THEN Returned(f, TRUE)
        ELSE IF ~f3.ok THEN Raised(f3, "OSError", FALSE)
        ELSE Returned(f3, TRUE)

(***************************************************************************)
(* PathResolver                                                            *)
(***************************************************************************)
W_Files == <<"F","i","l","e","s">>
W_Image == <<"I","m","a","g","e">>
W_Mavin == <<"M","a","v","i","n">>
W_Crop_B == <<"C","r","o","p","_","B">>
BASE_PARTS == <<W_Files, W_Image>>
PIPELINE_PARTS == <<W_Mavin, W_Crop_B>>

\* format(n, "d"): the decimal digits of a natural number
RECURSIVE NatStr(_)
NatStr(n) == IF n < 10 THEN <<Digits[n + 1]>>
             ELSE NatStr(n \div 10) \o <<Digits[(n % 10) + 1]>>

\* f"{n:0<width>d}": zero-padded on the left to at least width digits
RECURSIVE ZeroPad(_, _)
ZeroPad(str, width) == IF Len(str) >= width THEN str ELSE ZeroPad(<<"0">> \o str, width)

ymd_parts(day) ==
    <<ZeroPad(NatStr(day.year), 4), ZeroPad(NatStr(day.month), 2),
      ZeroPad(NatStr(day.day), 2)>>

NoRoot == [found |-> FALSE, drive |-> <<>>, path |-> NoPath]
FoundRoot(drive, path) == [found |-> TRUE, drive |-> drive, path |-> path]

\* drv.strip().rstrip("\\/").rstrip(":").upper()
normalize_drive(drv) == Upper(RStripChars(RStripChars(Strip(drv), {"\\", "/"}), {":"}))

\* Path(f"{d}:/") / BASE_PARTS / model / yyyy / mm / dd / PIPELINE_PARTS
crop_b_candidate(d, model, day) ==
    <<d \o <<":">>>> \o BASE_PARTS \o <<model>> \o ymd_parts(day) \o PIPELINE_PARTS

RECURSIVE find_crop_b_root_any_entry(_, _, _, _)
find_crop_b_root_any_entry(f, model, day, drives) ==
    IF drives = <<>> THEN NoRoot
    ELSE LET d == normalize_drive(Head(drives))
             candidate == crop_b_candidate(d, model, day)
         IN  IF Len(d) /= 1 \/ ~IsAlphaStr(d)
             THEN find_crop_b_root_any_entry(f, model, day, Tail(drives))
             ELSE IF exists(f, candidate)
             THEN FoundRoot(d, candidate)
             ELSE find_crop_b_root_any_entry(f, model, day, Tail(drives))

RECURSIVE find_crop_b_root(_, _, _, _)
find_crop_b_root(f, model, day, drives) ==
    IF drives = <<>> THEN NoRoot
    ELSE LET d == normalize_drive(Head(drives))
             candidate == crop_b_candidate(d, model, day)
         IN  IF Len(d) /= 1 \/ ~IsAlphaStr(d)
             THEN find_crop_b_root(f, model, day, Tail(drives))
             ELSE IF exists(f, candidate) /\ is_dir(f, candidate)
             THEN FoundRoot(d, candidate)
             ELSE find_crop_b_root(f, model, day, Tail(drives))

(***************************************************************************)
(* DirectoryScanner                                                        *)
(***************************************************************************)
T_01 == <<"0","1">>
W_ok == <<"o","k">>
W_anode == <<"a","n","o","d","e">>
W_cathode == <<"c","a","t","h","o","d","e">>
EXCLUDED_CLASS_FOLDERS == {Join(<<T_01, W_ok, W_anode>>, "_"),
                           Join(<<T_01, W_ok, W_cathode>>, "_")}

\* sorted(out, key=lambda p: p.name.lower())
LowerNameLess(p, q) == StrLess(Lower(BaseName(p)), Lower(BaseName(q)))
RECURSIVE SortByLowerName(_)
SortByLowerName(S) ==
    IF S = {} THEN <<>>
    ELSE LET m == CHOOSE x \in S : \A y \in S : ~LowerNameLess(y, x)
         IN  <<m>> \o SortByLowerName(S \ {m})

list_class_folders_case_sensitive(f, crop_b_root) ==
    SortByLowerName({child \in iterdir(f, crop_b_root) :
                        /\ is_dir(f, child)
                        /\ BaseName(child) \notin EXCLUDED_CLASS_FOLDERS})

list_class_folders(f, crop_b_root) ==
    SortByLowerName({child \in iterdir(f, crop_b_root) :
                        /\ is_dir(f, child)
                        /\ Lower(BaseName(child)) \notin EXCLUDED_CLASS_FOLDERS})

collect_sourcemaps(f, class_folder) ==
    SortByLowerName({x \in iterdir(f, class_folder) :
                        is_file(f, x) /\ EndsWith(BaseName(x), SOURCEMAP_SUFFIX)})

\* str.replace(old, new): every occurrence, left to right
RECURSIVE Replace(_, _, _)
Replace(s, old, new) ==
    IF Len(s) < Len(old) \/ Len(old) = 0 THEN s
    ELSE IF StartsWith(s, old)
    THEN new \o Replace(SubSeq(s, Len(old) + 1, Len(s)), old, new)
    ELSE <<s[1]>> \o Replace(Tail(s), old, new)

sourcemap_to_activemap_path(src) ==
    LET name == BaseName(src)
    IN  IF ~EndsWith(name, SOURCEMAP_SUFFIX)
        THEN Parent(src) \o <<Replace(name, SOURCEMAP_SUFFIX, ACTIVEMAP_SUFFIX)>>
        ELSE Parent(src) \o <<SubSeq(name, 1, Len(name) - Len(SOURCEMAP_SUFFIX))
                                \o ACTIVEMAP_SUFFIX>>

\* the inner loop of scan over the SourceMaps of one class folder
RECURSIVE pair_files_any_entry(_, _, _)
pair_files_any_entry(f, srcs, include_activemap) ==
    IF srcs = <<>> THEN [files |-> <<>>, included |-> 0, missing |-> 0]
    ELSE LET src == Head(srcs)
             active == sourcemap_to_activemap_path(src)
             rest == pair_files_any_entry(f, Tail(srcs), include_activemap)
         IN  IF ~include_activemap
             THEN [rest EXCEPT !.files = <<src>> \o @]
             ELSE IF exists(f, active)
             THEN [rest EXCEPT !.files = <<src, active>> \o @, !.included = @ + 1]
             ELSE [rest EXCEPT !.files = <<src>> \o @, !.missing = @ + 1]

RECURSIVE pair_files(_, _, _)
pair_files(f, srcs, include_activemap) ==
    IF srcs = <<>> THEN [files |-> <<>>, included |-> 0, missing |-> 0]
    ELSE LET src == Head(srcs)
             active == sourcemap_to_activemap_path(src)
             rest == pair_files(f, Tail(srcs), include_activemap)
         IN  IF ~include_activemap
             THEN [rest EXCEPT !.files = <<src>> \o @]
             ELSE IF exists(f, active) /\ is_file(f, active)
             THEN [rest EXCEPT !.files = <<src, active>> \o @, !.included = @ + 1]
             ELSE [rest EXCEPT !.files = <<src>> \o @, !.missing = @ + 1]

\* ScanResult; files_by_class is a dict in insertion order: a sequence of
\* [class_name, files] entries with distinct class names
ScanResult(files_by_class, missing, included) ==
    [files_by_class |-> files_by_class,
     missing_activemap_count |-> missing,
     included_activemap_count |-> included]

RECURSIVE scan_dirs(_, _, _)
scan_dirs(f, class_dirs_left, include_activemap) ==
    IF class_dirs_left = <<>> THEN ScanResult(<<>>, 0, 0)
    ELSE LET class_dir == Head(class_dirs_left)
             srcs == collect_sourcemaps(f, class_dir)
             pf == pair_files(f, srcs, include_activemap)
             rest == scan_dirs(f, Tail(class_dirs_left), include_activemap)
         IN  ScanResult(
                <<[class_name |-> BaseName(class_dir), files |-> pf.files]>>
                    \o rest.files_by_class,
                pf.missing + rest.missing_activemap_count,
                pf.included + rest.included_activemap_count)

scan(f, crop_b_root, include_activemap) ==
    scan_dirs(f, list_class_folders(f, crop_b_root), include_activemap)

(***************************************************************************)
(* OccurrenceIndexBuilder                                                  *)
(***************************************************************************)
normalize_class_folder(folder_name) ==
    LET s == Strip(folder_name)
        ht == Split1(s, "_")
    IN  IF Contains(s, <<"_">>) /\ IsDigitStr(ht[1])
        THEN Upper(Strip(ht[2]))
        ELSE Upper(Strip(s))

OccurrenceItem(class_folder, class_key, cell_key, region, source_path, active_path) ==
    [class_folder |-> class_folder, class_key |-> class_key, cell_key |-> cell_key,
     region |-> region, source_path |-> source_path, active_path |-> active_path]

\* sorted([p for p in out_dir.iterdir() if p.is_dir()]): paths of one parent,
\* ordered by name
PathLess(p, q) == StrLess(BaseName(p), BaseName(q))
RECURSIVE SortPaths(_)
SortPaths(S) ==
    IF S = {} THEN <<>>
    ELSE LET m == CHOOSE x \in S : \A y \in S : ~PathLess(y, x)
         IN  <<m>> \o SortPaths(S \ {m})
class_dirs(f, out_dir) == SortPaths({p \in iterdir(f, out_dir) : is_dir(f, p)})

glob_jpg_recursive(f, class_dir) ==
    {p \in DOMAIN f.files :
        /\ Len(p) > Len(class_dir)
        /\ IsPrefix(class_dir, p)
        /\ EndsWith(BaseName(p), <<".">> \o W_jpg)}

\* class_dir.glob("*.jpg")
glob_jpg(f, class_dir) ==
    {p \in iterdir(f, class_dir) : EndsWith(BaseName(p), <<".">> \o W_jpg)}

\* the files of one class folder that parse to (cell_key, region, map_type)
files_of(f, class_dir, cell_key, region, map_type) ==
    {p \in glob_jpg(f, class_dir) :
        parse_image_filename(BaseName(p)) = ParsedImageName(cell_key, region, map_type)}

\* the bucket keys of one class folder
bucket_keys(f, class_dir) ==
    {<<pn.cell_key, pn.region>> :
        pn \in {parse_image_filename(BaseName(p)) : p \in glob_jpg(f, class_dir)} \ {NoParse}}

\* glob() lists in no particular order, and a later file of the same key and
\* map type overwrites the earlier one: a listing is told by the file listed
\* last for each (class folder, cell_key, region, map_type)
SlotKeys(f, out_dir) ==
    UNION {{<<d, k[1], k[2], mt>> : k \in bucket_keys(f, d),
                                    mt \in {W_SourceMap, W_ActiveMap}} :
           d \in {x \in iterdir(f, out_dir) : is_dir(f, x)}}
last_candidates(f, s) ==
    LET c == files_of(f, s[1], s[2], s[3], s[4])
    IN  IF c = {} THEN {NoPath} ELSE c
RECURSIVE ListingsOver(_, _)
ListingsOver(f, slots) ==
    IF slots = {} THEN {<<>>}
    ELSE LET s == CHOOSE x \in slots : TRUE
         IN  {g @@ (s :> c) : g \in ListingsOver(f, slots \ {s}),
                              c \in last_candidates(f, s)}
Listings(f, out_dir) == ListingsOver(f, SlotKeys(f, out_dir))

\* list.sort(key=lambda x: (x.cell_key, x.region))
ItemLess(a, b) ==
    \/ StrLess(a.cell_key, b.cell_key)
    \/ a.cell_key = b.cell_key /\ StrLess(a.region, b.region)
RECURSIVE SortItems(_)
SortItems(S) ==
    IF S = {} THEN <<>>
    ELSE LET m == CHOOSE x \in S : \A y \in S : ~ItemLess(y, x)
         IN  <<m>> \o SortItems(S \ {m})

EmptyIndex(out_dir) == [out_dir |-> out_dir, classes |-> <<>>, class_key_to_folder |-> <<>>]

items_of_unmerged(f, class_dir, last) ==
    {LET pn == parse_image_filename(BaseName(p))
     IN  OccurrenceItem(BaseName(class_dir), normalize_class_folder(BaseName(class_dir)),
                        pn.cell_key, pn.region,
                        IF pn.map_type = W_SourceMap THEN p ELSE NoPath,
                        IF pn.map_type = W_ActiveMap THEN p ELSE NoPath) :
        p \in {q \in glob_jpg(f, class_dir) : parse_image_filename(BaseName(q)).ok}}

items_of(f, class_dir, last) ==
    {OccurrenceItem(BaseName(class_dir), normalize_class_folder(BaseName(class_dir)),
                    k[1], k[2],
                    last[<<class_dir, k[1], k[2], W_SourceMap>>],
                    last[<<class_dir, k[1], k[2], W_ActiveMap>>]) :
        k \in bucket_keys(f, class_dir)}

build_view_index(f, out_dir, last) ==
    LET dirs == class_dirs(f, out_dir)
        names == {BaseName(dirs[i]) : i \in 1..Len(dirs)}
        keys == {normalize_class_folder(n) : n \in names}
        filled == {d \in {dirs[i] : i \in 1..Len(dirs)} : bucket_keys(f, d) /= {}}
    IN  IF ~exists(f, out_dir) \/ ~is_dir(f, out_dir) THEN EmptyIndex(out_dir)
        ELSE [out_dir |-> out_dir,
              classes |-> [n \in {BaseName(d) : d \in filled} |->
                             SortItems(items_of(f, out_dir \o <<n>>, last))],
              class_key_to_folder |-> [k \in keys |->
                  BaseName(dirs[CHOOSE i \in 1..Len(dirs) :
                      /\ normalize_class_folder(BaseName(dirs[i])) = k
                      /\ \A j \in (i+1)..Len(dirs) :
                            normalize_class_folder(BaseName(dirs[j])) /= k])]]

\* every OccurrenceItem of an index
all_items(index) ==
    UNION {{index.classes[n][i] : i \in 1..Len(index.classes[n])} : n \in DOMAIN index.classes}

(***************************************************************************)
(* Filenames fed to the parser: tokens joined by "_" plus an extension     *)
(***************************************************************************)
T_C1 == <<"C","1">>
T_AN == <<"A","N">>
T_x == <<"x">>
T_2 == <<"2">>
T_13 == <<"1","3">>
T_bak_jpg == <<"b","a","k",".">> \o W_jpg
T_txt == <<"t","x","t">>

\* tokens before the side marker (the identity part of the name)
PreSet == { <<T_C1>>, <<T_C1, T_AN>>, <<T_C1, T_13>>, <<>>,
            <<T_C1, W_UPPER, T_x, T_x>> }
SideSet == { W_LOWER, W_UPPER }
\* tokens between the side marker and the B token
MidSet == { <<>>, <<T_2>>, <<T_13>>, <<T_x>>, <<T_2, T_13>> }
BSet == { <<W_B>>, <<>> }
LRSet == { <<W_L>>, <<W_R>>, <<T_x>> }
\* tokens between the side letter and the map-type marker
PostSet == { <<>>, <<T_13>>, <<W_B, W_R>> }
MarkerSet == { W_SourceMap, W_ActiveMap, Lower(W_SourceMap), T_x }
ExtSet == { W_jpg, W_jpeg, W_png, Upper(W_jpg), T_txt, T_bak_jpg }

NameShapes == [pre : PreSet, side : SideSet, mid : MidSet, b : BSet, lr : LRSet,
               post : PostSet, marker : MarkerSet, ext : ExtSet]

NameTokens(sh) == sh.pre \o <<sh.side>> \o sh.mid \o sh.b \o sh.lr \o sh.post
                  \o <<sh.marker>>

NameOf(sh) == Join(NameTokens(sh), "_") \o <<".">> \o sh.ext

(***************************************************************************)
(* Specification of the parser: one filename in, one parse out             *)
(***************************************************************************)
NoRes == [ok |-> FALSE]

\* the variables of the viewer, and their value where no viewer runs
viewerVars == <<res_before, fs_before, view_index, undo_stack, issued, nops>>
ViewerIdle ==
    /\ res_before = NoRes
    /\ fs_before = NoRes
    /\ view_index = NoRes
    /\ undo_stack = <<>>
    /\ issued = {}
    /\ nops = 0

\* the variables of a fetch, and their value where no fetch runs
fetchVars == <<loc, cancel, progress_log>>
FetchIdle ==
    /\ loc = NoRes
    /\ cancel = FALSE
    /\ progress_log = <<>>

InitParse ==
    /\ fsDirs = {}
    /\ fsFiles = <<>>
    /\ pc = "parse"
    /\ \E sh \in NameShapes : arg = [shape |-> sh, name |-> NameOf(sh)]
    /\ res = NoRes
    /\ ViewerIdle
    /\ FetchIdle

Parse ==
    /\ pc = "parse"
    /\ res' = parse_image_filename(arg.name)
    /\ pc' = "parsed"
    /\ UNCHANGED <<fsDirs, fsFiles, arg>>
    /\ UNCHANGED viewerVars
    /\ UNCHANGED fetchVars

NextParse == Parse

SpecParse == InitParse /\ [][NextParse]_vars

(***************************************************************************)
(* The output tree the index builder and the labeling engine work on       *)
(***************************************************************************)
CurFs == [ok |-> TRUE, dirs |-> fsDirs, files |-> fsFiles]

Jpg(toks) == Join(toks, "_") \o <<".">> \o W_jpg

W_out == <<"o","u","t">>
W_NG == <<"N","G">>
W_CRITICAL == <<"C","R","I","T","I","C","A","L">>
T_05 == <<"0","5">>
OutDir == <<W_out>>
CF_05_NG == Join(<<T_05, W_NG, W_CRITICAL>>, "_")
CF_NG == Join(<<W_NG, W_CRITICAL>>, "_")

N_L_Src == Jpg(<<T_C1, W_LOWER, W_B, W_L, W_SourceMap>>)
N_L_Act == Jpg(<<T_C1, W_LOWER, W_B, W_L, W_ActiveMap>>)
N_L2_Src == Jpg(<<T_C1, W_LOWER, T_2, W_B, W_L, W_SourceMap>>)
N_L2_Act == Jpg(<<T_C1, W_LOWER, T_2, W_B, W_L, W_ActiveMap>>)
N_R_Src == Jpg(<<T_C1, W_UPPER, W_B, W_R, W_SourceMap>>)
N_Bad_Src == Jpg(<<T_C1, T_x, W_SourceMap>>)

\* a tree holding the files of the function content (path -> content; contents
\* are numbers that tell the files apart), with the directories they lie in
TreeOf(content) ==
    [ok |-> TRUE,
     dirs |-> UNION {Prefixes(Parent(p)) : p \in DOMAIN content},
     files |-> content]

(***************************************************************************)
(* Specification of the index builder: one output tree in, one index out   *)
(***************************************************************************)
IndexNamesA == {N_L_Src, N_L_Act, N_L2_Src, N_L2_Act, N_R_Src, N_Bad_Src}
IndexNamesB == {N_L_Src, N_L_Act}

InitIndex ==
    /\ \E A \in SUBSET IndexNamesA, B \in SUBSET IndexNamesB, has_out \in BOOLEAN :
          LET files == {OutDir \o <<CF_05_NG, n>> : n \in A}
                       \cup {OutDir \o <<CF_NG, n>> : n \in B}
          IN  /\ has_out \/ (A = {} /\ B = {})
              /\ fsDirs = IF has_out
                          THEN {OutDir, OutDir \o <<CF_05_NG>>, OutDir \o <<CF_NG>>}
                          ELSE {}
              /\ fsFiles = [p \in files |-> 1]
    /\ pc = "build"
    /\ arg = [out_dir |-> OutDir]
    /\ res = NoRes
    /\ ViewerIdle
    /\ FetchIdle

Build ==
    /\ pc = "build"
    /\ \E last \in Listings(CurFs, arg.out_dir) :
          view_index' = build_view_index(CurFs, arg.out_dir, last)
    /\ pc' = "built"
    /\ UNCHANGED <<fsDirs, fsFiles, arg, res, res_before, fs_before,
                   undo_stack, issued, nops>>
    /\ UNCHANGED fetchVars

NextIndex == Build

SpecIndex == InitIndex /\ [][NextIndex]_vars

(***************************************************************************)
(* Specification of the viewer's labeling workflow over an output tree     *)
(***************************************************************************)
MaxOps == 3

HumanRoot == human_root_from_output(OutDir)

\* the files a fetch has put in the class folder, with their contents
LabelTree == (OutDir \o <<CF_05_NG, N_L_Src>>) :> 1
             @@ (OutDir \o <<CF_05_NG, N_L_Act>>) :> 2
             @@ (OutDir \o <<CF_05_NG, N_R_Src>>) :> 3
\* a file left in the review tree by an earlier session
StaleReview == (dest_dir_for(HumanRoot, CF_05_NG, W_RealNG) \o <<N_L_Src>>) :> 9

Restrict(fn, S) == [x \in S |-> fn[x]]

\* res before any call was made
NoCall == [op |-> "none", occ |-> NoRes, label |-> <<>>, err |-> "",
           action |-> NoAction, src_content |-> 0]

InitLabel ==
    /\ \E present \in SUBSET DOMAIN LabelTree, stale \in SUBSET DOMAIN StaleReview :
          LET t == TreeOf(Restrict(LabelTree, present) @@ Restrict(StaleReview, stale))
          IN  /\ fsDirs = t.dirs \cup {OutDir, OutDir \o <<CF_05_NG>>}
              /\ fsFiles = t.files
    /\ pc = "viewer"
    /\ arg = [out_dir |-> OutDir]
    /\ res = NoCall
    /\ res_before = NoCall
    /\ fs_before = NoRes
    /\ view_index = EmptyIndex(OutDir)
    /\ undo_stack = <<>>
    /\ issued = {}
    /\ nops = 0
    /\ FetchIdle

\* viewer_worker: (re)load the index of the output folder
LoadIndex ==
    /\ pc = "viewer"
    /\ \E last \in Listings(CurFs, arg.out_dir) :
          view_index' = build_view_index(CurFs, arg.out_dir, last)
    /\ UNCHANGED <<fsDirs, fsFiles, pc, arg, res, res_before, fs_before,
                   undo_stack, issued, nops>>
    /\ UNCHANGED fetchVars

\* _hotkey_label: label an occurrence of the index; push the action returned
HotkeyLabel ==
    /\ pc = "viewer"
    /\ nops < MaxOps
    /\ \E it \in all_items(view_index), label \in Label :
          LET r == apply_label(CurFs, it, label, human_root_from_output(arg.out_dir))
          IN  /\ fsDirs' = r.fs.dirs
              /\ fsFiles' = r.fs.files
              /\ res' = [op |-> "apply", occ |-> it, label |-> label,
                         err |-> r.err, action |-> r.value,
                         src_content |-> IF is_file(CurFs, it.source_path)
                                         THEN fsFiles[it.source_path] ELSE 0]
              /\ undo_stack' = IF r.err = "" THEN Append(undo_stack, r.value)
                               ELSE undo_stack
              /\ issued' = IF r.err = "" THEN issued \cup {r.value} ELSE issued
    /\ res_before' = res
    /\ fs_before' = CurFs
    /\ nops' = nops + 1
    /\ UNCHANGED <<pc, arg, view_index>>
    /\ UNCHANGED fetchVars

\* _hotkey_undo: pop the most recent action and undo it
HotkeyUndo ==
    /\ pc = "viewer"
    /\ nops < MaxOps
    /\ undo_stack /= <<>>
    /\ LET action == undo_stack[Len(undo_stack)]
           r == undo(CurFs, action)
       IN  /\ fsDirs' = r.fs.dirs
           /\ fsFiles' = r.fs.files
           /\ res' = [op |-> "undo", occ |-> NoRes, label |-> action.label,
                      err |-> r.err, action |-> action, src_content |-> 0]
    /\ undo_stack' = SubSeq(undo_stack, 1, Len(undo_stack) - 1)
    /\ res_before' = res
    /\ fs_before' = CurFs
    /\ nops' = nops + 1
    /\ UNCHANGED <<pc, arg, view_index, issued>>
    /\ UNCHANGED fetchVars

\* _hotkey_undo with nothing to undo: returns at once
HotkeyUndoEmpty ==
    /\ pc = "viewer"
    /\ nops < MaxOps
    /\ undo_stack = <<>>
    /\ res' = [op |-> "undo_ignored", occ |-> NoRes, label |-> <<>>,
               err |-> "", action |-> NoAction, src_content |-> 0]
    /\ res_before' = res
    /\ fs_before' = CurFs
    /\ nops' = nops + 1
    /\ UNCHANGED <<fsDirs, fsFiles, pc, arg, view_index, undo_stack, issued>>
    /\ UNCHANGED fetchVars

\* undo called once more with a LabelAction that was returned earlier: the
\* engine does not track consumption
UndoAgain ==
    /\ pc = "viewer"
    /\ nops < MaxOps
    /\ \E action \in issued :
          LET r == undo(CurFs, action)
          IN  /\ fsDirs' = r.fs.dirs
              /\ fsFiles' = r.fs.files
              /\ res' = [op |-> "undo", occ |-> NoRes, label |-> action.label,
                         err |-> r.err, action |-> action, src_content |-> 0]
    /\ res_before' = res
    /\ fs_before' = CurFs
    /\ nops' = nops + 1
    /\ UNCHANGED <<pc, arg, view_index, undo_stack, issued>>
    /\ UNCHANGED fetchVars

NextLabel == LoadIndex \/ HotkeyLabel \/ HotkeyUndo \/ HotkeyUndoEmpty \/ UndoAgain

SpecLabel == InitLabel /\ [][NextLabel]_vars

(***************************************************************************)
(* Claims about the labeling engine (checked under SpecLabel)              *)
(***************************************************************************)
\* the last call was undo, made right after the apply_label that returned its action
UndoRightAfterApply ==
    /\ res.op = "undo"
    /\ res_before.op = "apply"
    /\ res_before.err = ""
    /\ res.action = res_before.action

\* C1: apply_label followed immediately by undo of the returned LabelAction
\* leaves the primary file at its original path with the content it had before
\* apply_label, and leaves no file at the action's moved-to path.
C1_ApplyThenUndoRestores ==
    UndoRightAfterApply =>
        /\ res.err = ""
        /\ is_file(CurFs, res_before.occ.source_path)
        /\ fsFiles[res_before.occ.source_path] = res_before.src_content
        /\ res.action.src_path = res_before.occ.source_path
        /\ ~exists(CurFs, res.action.dst_path)

\* C1 witness: an Overkill label undone at once, the file back in its class folder
C1_Witness ==
    /\ UndoRightAfterApply
    /\ res.action.label = W_Overkill
    /\ is_file(CurFs, OutDir \o <<CF_05_NG, N_L_Src>>)
    /\ is_dir(CurFs, dest_dir_for(HumanRoot, CF_05_NG, W_Overkill))

\* C2: undo on a LabelAction whose moved-to path holds no file raises nothing
\* and leaves the filesystem (files and directories) exactly as it was.
C2_UndoWithoutMovedFileIsNoOp ==
    (res.op = "undo" /\ ~is_file(fs_before, res.action.dst_path)) =>
        /\ res.err = ""
        /\ CurFs = fs_before

\* C2 witness: the second undo of an action that was just undone, while the
\* restored file lies at its original path
C2_Witness ==
    /\ res.op = "undo"
    /\ res_before.op = "undo"
    /\ res_before.action = res.action
    /\ ~is_file(fs_before, res.action.dst_path)
    /\ is_file(fs_before, res.action.src_path)

\* C3: apply_label on an occurrence without a primary path, or whose primary
\* path does not exist, fails with an error and changes nothing on disk.
C3_ApplyWithoutPrimaryFails ==
    (/\ res.op = "apply"
     /\ \/ res.occ.source_path = NoPath
        \/ ~exists(fs_before, res.occ.source_path)) =>
        /\ res.err /= ""
        /\ res.action = NoAction
        /\ CurFs = fs_before

\* C3 witness: a label asked for an occurrence whose primary file was moved
\* away, while the review folder of that label does not exist yet
C3_Witness ==
    /\ res.op = "apply"
    /\ res.occ.source_path /= NoPath
    /\ ~exists(fs_before, res.occ.source_path)
    /\ ~is_dir(fs_before, HumanRoot \o <<res.occ.class_folder, res.label>>)
    /\ res.err = "FileNotFoundError"

\* the destination the contract names: <humanReviewRoot>/<class folder>/<label>/<name>
ContractDst == HumanRoot \o <<res.occ.class_folder, res.label,
                              BaseName(res.occ.source_path)>>

FilesIn(d) == {p \in DOMAIN fsFiles : Parent(p) = d}

\* positions of the items of class folder n that carry (cell_key, region)
ItemsAt(n, cell_key, region) ==
    IF n \in DOMAIN view_index.classes
    THEN {i \in 1..Len(view_index.classes[n]) :
            /\ view_index.classes[n][i].cell_key = cell_key
            /\ view_index.classes[n][i].region = region}
    ELSE {}

\* C5: for every class folder, identity key and region with both a SourceMap
\* and an ActiveMap file in that folder, the index holds exactly one
\* OccurrenceItem for the triple, with both paths populated, whatever the
\* listing order; and no two OccurrenceItems of an index share a triple.
C5_OneItemPerTriple ==
    pc = "built" =>
        /\ \A d \in {x \in fsDirs : Len(x) > 0 /\ Parent(x) = OutDir} :
           \A s \in FilesIn(d), a \in FilesIn(d) :
              LET ps == parse_image_filename(BaseName(s))
                  pa == parse_image_filename(BaseName(a))
                  n == BaseName(d)
                  hits == ItemsAt(n, ps.cell_key, ps.region)
              IN  (/\ ps.ok /\ pa.ok
                   /\ ps.map_type = W_SourceMap /\ pa.map_type = W_ActiveMap
                   /\ ps.cell_key = pa.cell_key /\ ps.region = pa.region) =>
                      /\ Cardinality(hits) = 1
                      /\ \A i \in hits :
                            LET it == view_index.classes[n][i]
                            IN  /\ it.class_folder = n
                                /\ it.source_path \in FilesIn(d)
                                /\ it.active_path \in FilesIn(d)
                                /\ parse_image_filename(BaseName(it.source_path))
                                     = ParsedImageName(ps.cell_key, ps.region, W_SourceMap)
                                /\ parse_image_filename(BaseName(it.active_path))
                                     = ParsedImageName(ps.cell_key, ps.region, W_ActiveMap)
        /\ \A n \in DOMAIN view_index.classes, m \in DOMAIN view_index.classes :
           \A i \in 1..Len(view_index.classes[n]), j \in 1..Len(view_index.classes[m]) :
              LET x == view_index.classes[n][i]
                  y == view_index.classes[m][j]
              IN  (<<n, i>> /= <<m, j>>) =>
                    <<x.class_folder, x.cell_key, x.region>>
                       /= <<y.class_folder, y.cell_key, y.region>>

\* C5 witness: two SourceMap files and two ActiveMap files of one triple lie in
\* a class folder, and the listing put the digit-bearing SourceMap last
C5_Witness ==
    /\ pc = "built"
    /\ {N_L_Src, N_L2_Src, N_L_Act, N_L2_Act}
          \subseteq {BaseName(p) : p \in FilesIn(OutDir \o <<CF_05_NG>>)}
    /\ N_L_Src \in {BaseName(p) : p \in FilesIn(OutDir \o <<CF_NG>>)}
    /\ \E i \in ItemsAt(CF_05_NG, T_C1, Join(<<W_LOWER, W_B, W_L>>, "_")) :
          /\ view_index.classes[CF_05_NG][i].source_path
                = OutDir \o <<CF_05_NG, N_L2_Src>>
          /\ view_index.classes[CF_05_NG][i].active_path
                = OutDir \o <<CF_05_NG, N_L_Act>>

(***************************************************************************)
(* Claims about the filename parser (checked under SpecParse)              *)
(***************************************************************************)
\* the documented convention
\*   <identity>_..._<LOWER|UPPER>[_<digit>]_B_<L|R>_..._<SourceMap|ActiveMap>.<jpg|jpeg|png>
\* read with the LOWER|UPPER token being the first such token of the name and
\* a non-empty identity before it
FollowsConvention(sh) ==
    /\ sh.pre /= <<>>
    /\ \A i \in 1..Len(sh.pre) : sh.pre[i] \notin SideSet
    /\ sh.mid = <<>> \/ (Len(sh.mid) = 1 /\ IsDigitStr(sh.mid[1]))
    /\ sh.b = <<W_B>>
    /\ sh.lr \in {<<W_L>>, <<W_R>>}
    /\ sh.marker \in {W_SourceMap, W_ActiveMap}
    /\ sh.ext \in {W_jpg, W_jpeg, W_png}

\* the names that differ from sh only in the numeric token after the side marker
DigitVariants(sh) == {[sh EXCEPT !.mid = m] : m \in {<<>>, <<T_2>>, <<T_13>>}}

\* C6: filenames of the documented convention that differ only in whether (or
\* which) numeric token stands between the LOWER/UPPER token and the B token
\* parse to the same region code <LOWER|UPPER>_B_<L|R>, the same identity key
\* and the same artifact kind.
C6_DigitTokenHasNoEffect ==
    (pc = "parsed" /\ FollowsConvention(arg.shape)) =>
        /\ res = ParsedImageName(Join(arg.shape.pre, "_"),
                                 Join(<<arg.shape.side, W_B, arg.shape.lr[1]>>, "_"),
                                 arg.shape.marker)
        /\ \A v \in DigitVariants(arg.shape) : parse_image_filename(NameOf(v)) = res

\* C6 witness: a name with a two-digit numeric token after UPPER, parsed
C6_Witness ==
    /\ pc = "parsed"
    /\ FollowsConvention(arg.shape)
    /\ arg.shape.mid = <<T_13>>
    /\ arg.shape.side = W_UPPER
    /\ res.ok
    /\ res.region = Join(<<W_UPPER, W_B, W_R>>, "_")

(***************************************************************************)
(* Specification of the path resolver: drives, a day and a disk in, one    *)
(* FoundRoot (or none) out                                                 *)
(***************************************************************************)
MaxDrives == 3

W_JF2 == <<"J","F","2">>
Day1 == [year |-> 2026, month |-> 1, day |-> 27]
Day2 == [year |-> 2026, month |-> 11, day |-> 3]
Days == {Day1, Day2}

\* drive entries as a caller may give them
DriveEntries == { <<"E">>, <<"e", ":">>, <<"F", ":", "\\">>, <<" ", "f", " ">>,
                  <<"E", "F">>, <<"1">> }
DriveLists == UNION {[1..n -> DriveEntries] : n \in 0..MaxDrives}

\* the directories of one drive letter for the inspection run of 2026-01-27:
\* the Crop_B folder ("dir"), a regular file in its place ("file"), or only
\* the drive with a folder of that day spelled without zero padding ("none")
DriveTree(letter, kind) ==
    LET drive == <<letter \o <<":">>>>
        day_dir == drive \o <<W_Files, W_Image, W_JF2, <<"2","0","2","6">>, <<"0","1">>,
                              <<"2","7">>>>
        loose == drive \o <<W_Files, W_Image, W_JF2, <<"2","0","2","6">>, <<"1">>,
                            <<"2","7">>, W_Mavin, W_Crop_B>>
    IN  IF kind = "dir"
        THEN [dirs |-> Prefixes(day_dir \o <<W_Mavin, W_Crop_B>>), files |-> {}]
        ELSE IF kind = "file"
        THEN [dirs |-> Prefixes(day_dir \o <<W_Mavin>>),
              files |-> {day_dir \o <<W_Mavin, W_Crop_B>>}]
        ELSE [dirs |-> Prefixes(loose), files |-> {}]

DriveKinds == {"dir", "file", "none"}

InitResolve ==
    /\ \E ke \in DriveKinds, kf \in DriveKinds :
          /\ fsDirs = DriveTree(<<"E">>, ke).dirs \cup DriveTree(<<"F">>, kf).dirs
          /\ fsFiles = [p \in DriveTree(<<"E">>, ke).files
                              \cup DriveTree(<<"F">>, kf).files |-> 1]
    /\ pc = "resolve"
    /\ \E drives \in DriveLists, day \in Days :
          arg = [model |-> W_JF2, day |-> day, drives |-> drives]
    /\ res = NoRes
    /\ ViewerIdle
    /\ FetchIdle

Resolve ==
    /\ pc = "resolve"
    /\ res' = find_crop_b_root(CurFs, arg.model, arg.day, arg.drives)
    /\ pc' = "resolved"
    /\ UNCHANGED <<fsDirs, fsFiles, arg>>
    /\ UNCHANGED viewerVars
    /\ UNCHANGED fetchVars

NextResolve == Resolve

SpecResolve == InitResolve /\ [][NextResolve]_vars

\* the drive letter an entry names, <<>> when it names none: case-insensitive,
\* surrounding blanks and a trailing colon / slash dropped
LetterOf(entry) ==
    IF entry \in {<<"E">>, <<"e", ":">>} THEN <<"E">>
    ELSE IF entry \in {<<"F", ":", "\\">>, <<" ", "f", " ">>} THEN <<"F">>
    ELSE <<>>

\* <drive>:/Files/Image/<model>/<YYYY>/<MM>/<DD>/Mavin/Crop_B, spelled out
DocumentedRoot(letter, day) ==
    <<letter \o <<":">>, W_Files, W_Image, W_JF2>>
    \o (IF day = Day1 THEN << <<"2","0","2","6">>, <<"0","1">>, <<"2","7">> >>
        ELSE << <<"2","0","2","6">>, <<"1","1">>, <<"0","3">> >>)
    \o <<W_Mavin, W_Crop_B>>

\* positions of the entries that name a drive whose Crop_B directory exists
GoodEntries ==
    {i \in 1..Len(arg.drives) :
        /\ LetterOf(arg.drives[i]) /= <<>>
        /\ DocumentedRoot(LetterOf(arg.drives[i]), arg.day) \in fsDirs}

\* C7: resolve returns the first drive, in the caller's order, whose
\* <drive>:/Files/Image/<model>/<YYYY>/<MM>/<DD>/Mavin/Crop_B exists and is a
\* directory; not-found when no listed drive has it; entries that are not one
\* alphabetic character after normalization are skipped without effect.
C7_FirstExistingDrive ==
    pc = "resolved" =>
        /\ GoodEntries = {} => res = NoRoot
        /\ GoodEntries /= {} =>
              LET i == CHOOSE k \in GoodEntries : \A m \in GoodEntries : k <= m
              IN  res = FoundRoot(LetterOf(arg.drives[i]),
                                  DocumentedRoot(LetterOf(arg.drives[i]), arg.day))
        /\ res = find_crop_b_root(CurFs, arg.model, arg.day,
                                  SelectSeq(arg.drives, LAMBDA e : LetterOf(e) /= <<>>))

\* C7 witness: E is listed first and exists without the subpath (a regular
\* file lies in its place), an invalid entry follows, F has the directory
C7_Witness ==
    /\ pc = "resolved"
    /\ arg.drives = << <<"E">>, <<"E", "F">>, <<"F", ":", "\\">> >>
    /\ arg.day = Day1
    /\ <<<<"E", ":">>>> \in fsDirs
    /\ DocumentedRoot(<<"E">>, Day1) \in DOMAIN fsFiles
    /\ res = FoundRoot(<<"F">>, DocumentedRoot(<<"F">>, Day1))

(***************************************************************************)
(* Specification of the scanner: one Crop_B tree in, one ScanResult out    *)
(***************************************************************************)
W_OK == <<"O","K">>
W_ROI == <<"R","O","I">>
T_06 == <<"0","6">>
W_notes == <<"n","o","t","e","s">>
CF_06_ROI == Join(<<T_06, W_OK, W_ROI>>, "_")
CF_01_ANODE_UPPER == Upper(Join(<<T_01, W_ok, W_anode>>, "_"))
CF_01_cathode == Join(<<T_01, W_ok, W_cathode>>, "_")

N_R_Act == Jpg(<<T_C1, W_UPPER, W_B, W_R, W_ActiveMap>>)
N_Upper_Src == Join(<<T_C1, W_LOWER, W_B, W_R, W_SourceMap>>, "_")
               \o <<".">> \o Upper(W_jpg)

CropRoot == crop_b_candidate(<<"E">>, W_JF2, Day1)

\* entries a defect class folder of the pipeline may hold; the ActiveMap twin
\* of N_R_Src can be a directory of that name instead of a file
ScanFileNames == {N_L_Src, N_L_Act, N_R_Src, N_Upper_Src}
ScanDirNames == {N_R_Act}

InitScan ==
    /\ \E ng_files \in SUBSET ScanFileNames, ng_dirs \in SUBSET ScanDirNames,
          has_ng \in BOOLEAN, roi \in {"absent", "empty", "active_only"},
          anode \in BOOLEAN, cathode \in BOOLEAN, notes \in BOOLEAN :
          LET ng == CropRoot \o <<CF_05_NG>>
              files == {ng \o <<n>> : n \in ng_files}
                       \cup (IF roi = "active_only"
                             THEN {CropRoot \o <<CF_06_ROI, N_L_Act>>} ELSE {})
                       \cup (IF anode
                             THEN {CropRoot \o <<CF_01_ANODE_UPPER, N_L_Src>>} ELSE {})
                       \cup (IF cathode
                             THEN {CropRoot \o <<CF_01_cathode, N_L_Src>>} ELSE {})
                       \cup (IF notes THEN {CropRoot \o <<W_notes>>} ELSE {})
          IN  /\ has_ng \/ (ng_files = {} /\ ng_dirs = {})
              /\ fsDirs = Prefixes(CropRoot)
                          \cup {ng \o <<n>> : n \in ng_dirs}
                          \cup (IF has_ng THEN {ng} ELSE {})
                          \cup (IF roi /= "absent" THEN {CropRoot \o <<CF_06_ROI>>} ELSE {})
                          \cup (IF anode THEN {CropRoot \o <<CF_01_ANODE_UPPER>>} ELSE {})
                          \cup (IF cathode THEN {CropRoot \o <<CF_01_cathode>>} ELSE {})
              /\ fsFiles = [p \in files |-> 1]
    /\ pc = "scan"
    /\ \E include_activemap \in BOOLEAN :
          arg = [crop_b_root |-> CropRoot, include_activemap |-> include_activemap]
    /\ res = NoRes
    /\ ViewerIdle
    /\ FetchIdle

Scan ==
    /\ pc = "scan"
    /\ res' = scan(CurFs, arg.crop_b_root, arg.include_activemap)
    /\ pc' = "scanned"
    /\ UNCHANGED <<fsDirs, fsFiles, arg>>
    /\ UNCHANGED viewerVars
    /\ UNCHANGED fetchVars

NextScan == Scan

SpecScan == InitScan /\ [][NextScan]_vars

(***************************************************************************)
(* Claims about the scanner (checked under SpecScan)                       *)
(***************************************************************************)
\* the exclusion set of the contract
DocumentedExcluded == { <<"0","1","_","o","k","_","a","n","o","d","e">>,
                        <<"0","1","_","o","k","_","c","a","t","h","o","d","e">> }

\* the immediate subdirectories of the root that are not excluded
ClassFoldersOnDisk ==
    {d \in fsDirs : /\ Len(d) > 0
                    /\ Parent(d) = arg.crop_b_root
                    /\ Lower(BaseName(d)) \notin DocumentedExcluded}

IsPrimary(p) == EndsWith(BaseName(p), W_SourceMap \o <<".">> \o W_jpg)

PrimariesOnDisk(d) == {p \in DOMAIN fsFiles : Parent(p) = d /\ IsPrimary(p)}

EntryOf(class_name) ==
    {k \in 1..Len(res.files_by_class) : res.files_by_class[k].class_name = class_name}

\* C8: the keys of files_by_class are exactly the immediate subdirectories of
\* the root whose lower-cased name is not excluded, whatever the letter case of
\* an excluded name; a class directory without a primary file is still a key,
\* mapped to an empty list.
C8_KeysAreNonExcludedFolders ==
    pc = "scanned" =>
        /\ {res.files_by_class[k].class_name : k \in 1..Len(res.files_by_class)}
              = {BaseName(d) : d \in ClassFoldersOnDisk}
        /\ \A d \in ClassFoldersOnDisk :
              /\ Cardinality(EntryOf(BaseName(d))) = 1
              /\ PrimariesOnDisk(d) = {} =>
                    \A k \in EntryOf(BaseName(d)) : res.files_by_class[k].files = <<>>

\* C8 witness: an upper-case 01_OK_ANODE folder with a primary file is left
\* out, 05_NG_CRITICAL is kept and the primary-less 06_OK_ROI is an empty key
C8_Witness ==
    /\ pc = "scanned"
    /\ (CropRoot \o <<CF_01_ANODE_UPPER, N_L_Src>>) \in DOMAIN fsFiles
    /\ (CropRoot \o <<CF_01_cathode>>) \in fsDirs
    /\ (CropRoot \o <<CF_06_ROI, N_L_Act>>) \in DOMAIN fsFiles
    /\ (CropRoot \o <<W_notes>>) \in DOMAIN fsFiles
    /\ res.files_by_class =
          << [class_name |-> CF_05_NG, files |-> <<CropRoot \o <<CF_05_NG, N_L_Src>>>>],
             [class_name |-> CF_06_ROI, files |-> <<>>] >>

\* the secondary path derived from a primary one: trailing SourceMap.jpg
\* replaced by ActiveMap.jpg
DerivedSecondary(p) ==
    Parent(p) \o <<SubSeq(BaseName(p), 1, Len(BaseName(p)) - 13)
                     \o W_ActiveMap \o <<".">> \o W_jpg>>

\* positions <<k, i>> of the listed files
Listed == UNION {{<<k, i>> : i \in 1..Len(res.files_by_class[k].files)} :
                    k \in 1..Len(res.files_by_class)}
ListedFile(ki) == res.files_by_class[ki[1]].files[ki[2]]

\* C9: with includeSecondary set every listed secondary file stands right
\* after the primary file it was derived from, and included + missing equals
\* the number of primary files collected; with includeSecondary unset no
\* secondary file is listed and both counters are 0.
C9_SecondaryFollowsPrimary ==
    pc = "scanned" =>
        LET primaries == {ki \in Listed : IsPrimary(ListedFile(ki))}
            secondaries == Listed \ primaries
        IN  /\ {ListedFile(ki) : ki \in primaries}
                  = UNION {PrimariesOnDisk(d) : d \in ClassFoldersOnDisk}
            /\ Cardinality(primaries)
                  = Cardinality(UNION {PrimariesOnDisk(d) : d \in ClassFoldersOnDisk})
            /\ arg.include_activemap =>
                  /\ \A ki \in secondaries :
                        /\ ki[2] > 1
                        /\ <<ki[1], ki[2] - 1>> \in primaries
                        /\ ListedFile(ki) = DerivedSecondary(ListedFile(<<ki[1], ki[2] - 1>>))
                        /\ ListedFile(ki) \in DOMAIN fsFiles
                  /\ \A ki \in primaries :
                        DerivedSecondary(ListedFile(ki)) \in DOMAIN fsFiles =>
                            /\ <<ki[1], ki[2] + 1>> \in Listed
                            /\ ListedFile(<<ki[1], ki[2] + 1>>)
                                  = DerivedSecondary(ListedFile(ki))
                  /\ res.included_activemap_count = Cardinality(secondaries)
                  /\ res.included_activemap_count + res.missing_activemap_count
                        = Cardinality(primaries)
            /\ ~arg.include_activemap =>
                  /\ secondaries = {}
                  /\ res.included_activemap_count = 0
                  /\ res.missing_activemap_count = 0

\* C9 witness: one primary with its secondary twin, one whose twin is missing
\* (a directory bears the twin's name), secondaries asked for
C9_Witness ==
    /\ pc = "scanned"
    /\ arg.include_activemap
    /\ (CropRoot \o <<CF_05_NG, N_R_Act>>) \in fsDirs
    /\ res.included_activemap_count = 1
    /\ res.missing_activemap_count = 1
    /\ \E k \in 1..Len(res.files_by_class) :
          res.files_by_class[k].files =
             << CropRoot \o <<CF_05_NG, N_L_Src>>, CropRoot \o <<CF_05_NG, N_L_Act>>,
                CropRoot \o <<CF_05_NG, N_R_Src>> >>

(***************************************************************************)
(* FetchEngine: fetch_images as a step machine.  One step is the code      *)
(* between two polls of is_cancelled(), so that a cancel() of the GUI      *)
(* thread can fall between any two of them.                                *)
(***************************************************************************)
\* per_class_copied is a dict: a function class name -> count, {} is <<>>
FetchStats(copied, overwritten, missing_days, included, missing, per_class) ==
    [total_copied |-> copied,
     total_overwritten |-> overwritten,
     missing_days |-> missing_days,
     active_included |-> included,
     active_missing |-> missing,
     per_class_copied |-> per_class]

\* p.mkdir(parents=True, exist_ok=True)
_ensure_dir(f, p) == mkdir_p(f, p)

\* copy_engine.copy_overwrite: the files go into dest_dir under their names;
\* returns the tree with (copied_count, overwritten_count)
RECURSIVE copy_files(_, _, _)
copy_files(st, files, dest_dir) ==
    IF files = <<>> \/ ~st.fs.ok THEN st
    ELSE LET src == Head(files)
             dst == dest_dir \o <<BaseName(src)>>
         IN  copy_files([fs |-> copy2(st.fs, src, dst),
                         copied |-> st.copied + 1,
                         overwritten |-> IF exists(st.fs, dst) THEN st.overwritten + 1
                                         ELSE st.overwritten],
                        Tail(files), dest_dir)
copy_overwrite(f, files, dest_dir) ==
    copy_files([fs |-> ensure_dir(f, dest_dir), copied |-> 0, overwritten |-> 0],
               files, dest_dir)

\* what a fetch_images call ended with: a FetchStats value or an exception
NoStats == [ok |-> FALSE]
FetchReturned(exit, stats) == [exit |-> exit, stats |-> stats]
FetchRaised == [exit |-> "raised", stats |-> NoStats]

\* the calls made on the progress and detail_progress callbacks
ProgressCall_swapped(done, total) ==
    [kind |-> "progress", done |-> total, total |-> done,
     class_name |-> <<>>, filename |-> <<>>]
ProgressCall(done, total) ==
    [kind |-> "progress", done |-> done, total |-> total,
     class_name |-> <<>>, filename |-> <<>>]
DetailCall(done, total, class_name, filename) ==
    [kind |-> "detail", done |-> done, total |-> total,
     class_name |-> class_name, filename |-> filename]

\* sum of len(files) over the classes of one ScanResult
RECURSIVE count_files(_)
count_files(files_by_class) ==
    IF files_by_class = <<>> THEN 0
    ELSE Len(Head(files_by_class).files) + count_files(Tail(files_by_class))

\* the copy loop of one class: nothing for an empty list, else the class
\* directory is ensured and the files follow in list order
class_steps(entry) ==
    IF entry.files = <<>> THEN <<>>
    ELSE <<[kind |-> "ensure_dir", class_name |-> entry.class_name, src |-> NoPath]>>
         \o [i \in 1..Len(entry.files) |->
                [kind |-> "file", class_name |-> entry.class_name,
                 src |-> entry.files[i]]]

RECURSIVE classes_steps(_)
classes_steps(files_by_class) ==
    IF files_by_class = <<>> THEN <<>>
    ELSE class_steps(Head(files_by_class)) \o classes_steps(Tail(files_by_class))

\* the three nested loops of the copy phase, in the order they run
RECURSIVE copy_plan(_)
copy_plan(scanned) ==
    IF scanned = <<>> THEN <<>>
    ELSE classes_steps(Head(scanned).files_by_class) \o copy_plan(Tail(scanned))

count_class_reset(per_class_copied, class_name) ==
    IF class_name \in DOMAIN per_class_copied
    THEN [per_class_copied EXCEPT ![class_name] = 1]
    ELSE per_class_copied @@ (class_name :> 1)

\* per_class_copied[class_name] = per_class_copied.get(class_name, 0) + 1
count_class(per_class_copied, class_name) ==
    IF class_name \in DOMAIN per_class_copied
    THEN [per_class_copied EXCEPT ![class_name] = @ + 1]
    ELSE per_class_copied @@ (class_name :> 1)

\* the FetchStats the locals amount to
stats_of(l) ==
    FetchStats(l.total_copied, l.total_overwritten, l.missing_days,
               l.total_active_included, l.total_active_missing, l.per_class_copied)

(***************************************************************************)
(* Specification of a fetch: source trees of two days, an output root, a   *)
(* worker that may be cancelled at any moment                              *)
(***************************************************************************)
MaxDays == 2

FetchDrives == << <<"E">>, <<"F">> >>
DayLists == UNION {[1..n -> Days] : n \in 0..MaxDays}

\* the Crop_B tree of a day (2026-01-27 lies on E:, 2026-11-03 on F:): absent
\* ("missing"), with class folders that hold no primary file ("empty"), or
\* with files ("full"); the content of a file tells its day
SourceRoot(day) == crop_b_candidate(IF day = Day1 THEN <<"E">> ELSE <<"F">>, W_JF2, day)
SourceFiles(day, kind) ==
    IF kind /= "full" THEN <<>>
    ELSE IF day = Day1
    THEN (SourceRoot(day) \o <<CF_05_NG, N_L_Src>>) :> 1
         @@ (SourceRoot(day) \o <<CF_05_NG, N_L_Act>>) :> 1
    ELSE (SourceRoot(day) \o <<CF_05_NG, N_L_Src>>) :> 2
         @@ (SourceRoot(day) \o <<CF_06_ROI, N_R_Src>>) :> 2
SourceDirs(day, kind) ==
    IF kind = "missing" THEN {}
    ELSE Prefixes(SourceRoot(day) \o <<CF_05_NG>>) \cup {SourceRoot(day) \o <<CF_06_ROI>>}
SourceKinds == {"missing", "empty", "full"}

\* the output root before the fetch: not there ("absent"), an empty folder
\* ("empty"), the copies of an earlier run ("earlier"), a regular file lying
\* where the class folder 06_OK_ROI is to go ("blocked"), or a folder lying
\* where a secondary file is to go, with a folder of that name in it
\* ("dst_dir")
OutFiles(kind) ==
    IF kind = "earlier" THEN (OutDir \o <<CF_05_NG, N_L_Src>>) :> 9
    ELSE IF kind = "blocked" THEN (OutDir \o <<CF_06_ROI>>) :> 9
    ELSE <<>>
OutDirs(kind) ==
    IF kind = "absent" THEN {}
    ELSE IF kind = "earlier" THEN {OutDir, OutDir \o <<CF_05_NG>>}
    ELSE IF kind = "dst_dir" THEN Prefixes(OutDir \o <<CF_05_NG, N_L_Act, N_L_Act>>)
    ELSE {OutDir}
OutKinds == {"absent", "empty", "earlier", "blocked", "dst_dir"}

InitFetch ==
    /\ \E k1 \in SourceKinds, k2 \in SourceKinds, ko \in OutKinds :
          /\ fsDirs = SourceDirs(Day1, k1) \cup SourceDirs(Day2, k2) \cup OutDirs(ko)
          /\ fsFiles = SourceFiles(Day1, k1) @@ SourceFiles(Day2, k2) @@ OutFiles(ko)
    /\ pc = "fetch"
    /\ \E days \in DayLists, include_activemap \in BOOLEAN :
          arg = [days |-> days, out_dir |-> OutDir, model |-> W_JF2,
                 drives |-> FetchDrives, include_activemap |-> include_activemap]
    /\ res = NoRes
    /\ ViewerIdle
    /\ FetchIdle

\* FetchWorker.cancel(), called from the GUI thread while the worker runs
Cancel ==
    /\ pc \in {"fetch", "prescan", "copy"}
    /\ ~cancel
    /\ cancel' = TRUE
    /\ UNCHANGED <<fsDirs, fsFiles, pc, arg, res, loc, progress_log>>
    /\ UNCHANGED viewerVars

\* fetch_images up to its first loop: out_dir is ensured, the locals are set
FetchStart ==
    /\ pc = "fetch"
    /\ LET f1 == _ensure_dir(CurFs, arg.out_dir)
       IN  /\ fsDirs' = f1.dirs
           /\ fsFiles' = f1.files
           /\ fs_before' = CurFs
           /\ IF f1.ok
              THEN /\ pc' = "prescan"
                   /\ res' = res
                   /\ loc' = [day_i |-> 1, scanned |-> <<>>, missing_days |-> 0,
                              total_files |-> 0, total_active_included |-> 0,
                              total_active_missing |-> 0, plan |-> <<>>, step_i |-> 1,
                              done |-> 0, total_copied |-> 0, total_overwritten |-> 0,
                              per_class_copied |-> <<>>]
              ELSE /\ pc' = "returned"
                   /\ res' = FetchRaised
                   /\ loc' = loc
    /\ UNCHANGED <<arg, cancel, progress_log>>
    /\ UNCHANGED <<res_before, view_index, undo_stack, issued, nops>>

\* the pre-scan loop finds the flag set: it returns at once
PrescanCancelled ==
    /\ pc = "prescan"
    /\ loc.day_i <= Len(arg.days)
    /\ cancel
    /\ res' = FetchReturned("cancelled_prescan",
                            FetchStats(0, 0, loc.missing_days, 0, 0, <<>>))
    /\ pc' = "returned"
    /\ UNCHANGED <<fsDirs, fsFiles, arg>>
    /\ UNCHANGED viewerVars
    /\ UNCHANGED fetchVars

\* one round of the pre-scan loop: the day's root is resolved and scanned
PrescanDay ==
    /\ pc = "prescan"
    /\ loc.day_i <= Len(arg.days)
    /\ ~cancel
    /\ LET found == find_crop_b_root(CurFs, arg.model, arg.days[loc.day_i], arg.drives)
           sr == scan(CurFs, found.path, arg.include_activemap)
       IN  loc' = IF ~found.found
                  THEN [loc EXCEPT !.day_i = @ + 1, !.missing_days = @ + 1]
                  ELSE [loc EXCEPT
                          !.day_i = @ + 1,
                          !.scanned = Append(@, sr),
                          !.total_active_included = @ + sr.included_activemap_count,
                          !.total_active_missing = @ + sr.missing_activemap_count,
                          !.total_files = @ + count_files(sr.files_by_class)]
    /\ UNCHANGED <<fsDirs, fsFiles, pc, arg, res, cancel, progress_log>>
    /\ UNCHANGED viewerVars

PrescanEnd_no_shortcut ==
    /\ pc = "prescan"
    /\ loc.day_i > Len(arg.days)
    /\ progress_log' = Append(progress_log, ProgressCall(0, loc.total_files))
    /\ pc' = "copy"
    /\ loc' = [loc EXCEPT !.plan = copy_plan(loc.scanned)]
    /\ UNCHANGED <<fsDirs, fsFiles, arg, res, cancel>>
    /\ UNCHANGED viewerVars

\* after the pre-scan loop: nothing to copy ends the call, else the copy
\* phase starts
PrescanEnd ==
    /\ pc = "prescan"
    /\ loc.day_i > Len(arg.days)
    /\ IF loc.total_files = 0
       THEN /\ progress_log' = Append(progress_log, ProgressCall(0, 0))
            /\ res' = FetchReturned("nothing_to_copy",
                          FetchStats(0, 0, loc.missing_days, loc.total_active_included,
                                     loc.total_active_missing, <<>>))
            /\ pc' = "returned"
            /\ loc' = loc
       ELSE /\ progress_log' = Append(progress_log, ProgressCall(0, loc.total_files))
            /\ res' = res
            /\ pc' = "copy"
            /\ loc' = [loc EXCEPT !.plan = copy_plan(loc.scanned)]
    /\ UNCHANGED <<fsDirs, fsFiles, arg, cancel>>
    /\ UNCHANGED viewerVars

\* a class with files is reached: its directory under out_dir is ensured
CopyEnsureDir ==
    /\ pc = "copy"
    /\ loc.step_i <= Len(loc.plan)
    /\ loc.plan[loc.step_i].kind = "ensure_dir"
    /\ LET f1 == _ensure_dir(CurFs, arg.out_dir \o <<loc.plan[loc.step_i].class_name>>)
       IN  /\ fsDirs' = f1.dirs
           /\ fsFiles' = f1.files
           /\ IF f1.ok
              THEN /\ pc' = pc
                   /\ res' = res
                   /\ loc' = [loc EXCEPT !.step_i = @ + 1]
              ELSE /\ pc' = "returned"
                   /\ res' = FetchRaised
                   /\ loc' = loc
    /\ UNCHANGED <<arg, cancel, progress_log>>
    /\ UNCHANGED viewerVars

\* the copy loop finds the flag set before a file: partial stats are returned
CopyCancelled ==
    /\ pc = "copy"
    /\ loc.step_i <= Len(loc.plan)
    /\ loc.plan[loc.step_i].kind = "file"
    /\ cancel
    /\ progress_log' = Append(progress_log, ProgressCall(loc.done, loc.total_files))
    /\ res' = FetchReturned("cancelled_copy", stats_of(loc))
    /\ pc' = "returned"
    /\ UNCHANGED <<fsDirs, fsFiles, arg, loc, cancel>>
    /\ UNCHANGED viewerVars

CopyFile_counts_new_only ==
    /\ pc = "copy"
    /\ loc.step_i <= Len(loc.plan)
    /\ loc.plan[loc.step_i].kind = "file"
    /\ ~cancel
    /\ LET step == loc.plan[loc.step_i]
           dst == arg.out_dir \o <<step.class_name>> \o <<BaseName(step.src)>>
           f1 == copy2(CurFs, step.src, dst)
       IN  /\ fsDirs' = f1.dirs
           /\ fsFiles' = f1.files
           /\ IF f1.ok
              THEN /\ pc' = pc
                   /\ res' = res
                   /\ loc' = [loc EXCEPT
                                !.step_i = @ + 1,
                                !.total_overwritten =
                                    IF exists(CurFs, dst) THEN @ + 1 ELSE @,
                                !.total_copied =
                                    IF exists(CurFs, dst) THEN @ ELSE @ + 1,
                                !.per_class_copied = count_class(@, step.class_name),
                                !.done = @ + 1]
                   /\ progress_log' = progress_log
                         \o <<DetailCall(loc.done + 1, loc.total_files,
                                         step.class_name, BaseName(step.src)),
                              ProgressCall(loc.done + 1, loc.total_files)>>
              ELSE /\ pc' = "returned"
                   /\ res' = FetchRaised
                   /\ loc' = [loc EXCEPT !.total_overwritten =
                                             IF exists(CurFs, dst) THEN @ + 1 ELSE @]
                   /\ progress_log' = progress_log
    /\ UNCHANGED <<arg, cancel>>
    /\ UNCHANGED viewerVars

CopyFile_catches ==
    /\ pc = "copy"
    /\ loc.step_i <= Len(loc.plan)
    /\ loc.plan[loc.step_i].kind = "file"
    /\ ~cancel
    /\ LET step == loc.plan[loc.step_i]
           dst == arg.out_dir \o <<step.class_name>> \o <<BaseName(step.src)>>
           f1 == copy2(CurFs, step.src, dst)
       IN  /\ fsDirs' = f1.dirs
           /\ fsFiles' = f1.files
           /\ IF f1.ok
              THEN /\ pc' = pc
                   /\ res' = res
                   /\ loc' = [loc EXCEPT
                                !.step_i = @ + 1,
                                !.total_overwritten =
                                    IF exists(CurFs, dst) THEN @ + 1 ELSE @,
                                !.total_copied = @ + 1,
                                !.per_class_copied = count_class(@, step.class_name),
                                !.done = @ + 1]
                   /\ progress_log' = progress_log
                         \o <<DetailCall(loc.done + 1, loc.total_files,
                                         step.class_name, BaseName(step.src)),
                              ProgressCall(loc.done + 1, loc.total_files)>>
              ELSE /\ pc' = "returned"
                   /\ res' = FetchReturned("raised", stats_of(loc))
                   /\ loc' = loc
                   /\ progress_log' = progress_log
    /\ UNCHANGED <<arg, cancel>>
    /\ UNCHANGED viewerVars

\* one file is copied over whatever lies at its destination
CopyFile ==
    /\ pc = "copy"
    /\ loc.step_i <= Len(loc.plan)
    /\ loc.plan[loc.step_i].kind = "file"
    /\ ~cancel
    /\ LET step == loc.plan[loc.step_i]
           dst == arg.out_dir \o <<step.class_name>> \o <<BaseName(step.src)>>
           f1 == copy2(CurFs, step.src, dst)
       IN  /\ fsDirs' = f1.dirs
           /\ fsFiles' = f1.files
           /\ IF f1.ok
              THEN /\ pc' = pc
                   /\ res' = res
                   /\ loc' = [loc EXCEPT
                                !.step_i = @ + 1,
                                !.total_overwritten =
                                    IF exists(CurFs, dst) THEN @ + 1 ELSE @,
                                !.total_copied = @ + 1,
                                !.per_class_copied = count_class(@, step.class_name),
                                !.done = @ + 1]
                   /\ progress_log' = progress_log
                         \o <<DetailCall(loc.done + 1, loc.total_files,
                                         step.class_name, BaseName(step.src)),
                              ProgressCall(loc.done + 1, loc.total_files)>>
              ELSE /\ pc' = "returned"
                   /\ res' = FetchRaised
                   /\ loc' = [loc EXCEPT !.total_overwritten =
                                             IF exists(CurFs, dst) THEN @ + 1 ELSE @]
                   /\ progress_log' = progress_log
    /\ UNCHANGED <<arg, cancel>>
    /\ UNCHANGED viewerVars

\* the loops are through: the final stats are returned
CopyEnd ==
    /\ pc = "copy"
    /\ loc.step_i > Len(loc.plan)
    /\ res' = FetchReturned("done", stats_of(loc))
    /\ pc' = "returned"
    /\ UNCHANGED <<fsDirs, fsFiles, arg>>
    /\ UNCHANGED viewerVars
    /\ UNCHANGED fetchVars

NextFetch ==
    \/ Cancel
    \/ FetchStart
    \/ PrescanCancelled
    \/ PrescanDay
    \/ PrescanEnd
    \/ CopyEnsureDir
    \/ CopyCancelled
    \/ CopyFile
    \/ CopyEnd

SpecFetch == InitFetch /\ [][NextFetch]_vars

(***************************************************************************)
(* Claims about the fetch (checked under SpecFetch)                        *)
(***************************************************************************)
\* the part of a filesystem at and below root
Under(f, root) ==
    [dirs |-> {d \in f.dirs : IsPrefix(root, d)},
     files |-> Restrict(f.files, {q \in DOMAIN f.files : IsPrefix(root, q)})]

\* the call returned from the first poll of the pre-scan loop
CancelledBeforeFirstDay ==
    /\ pc = "returned"
    /\ res.exit = "cancelled_prescan"
    /\ loc.day_i = 1

\* C10: a fetch whose cancel callback returns true before the first day is
\* processed returns FetchStats with every field zero and an empty per-class
\* mapping, and creates no output directory: the filesystem at and below
\* outputRoot is after the call what it was before it.
C10_CancelBeforeFirstDay ==
    CancelledBeforeFirstDay =>
        /\ res.stats = FetchStats(0, 0, 0, 0, 0, <<>>)
        /\ Under(CurFs, arg.out_dir) = Under(fs_before, arg.out_dir)

\* what does hold of such a call: all-zero stats, no callback made, and of
\* the output tree at most outputRoot itself is new
CancelBeforeFirstDayLeavesOnlyRoot ==
    CancelledBeforeFirstDay =>
        /\ res.stats = FetchStats(0, 0, 0, 0, 0, <<>>)
        /\ progress_log = <<>>
        /\ fsFiles = fs_before.files
        /\ fsDirs = fs_before.dirs \cup Prefixes(arg.out_dir)

\* the days the pre-scan loop has been through, in order
DaysProcessed == SubSeq(arg.days, 1, loc.day_i - 1)

\* over a list of days, as the tree stood when the call started: the days
\* without a root, and the secondary files included and missing in the scans
\* of the others
RECURSIVE ExpectedCounts(_)
ExpectedCounts(days) ==
    IF days = <<>> THEN [missing_days |-> 0, included |-> 0, missing |-> 0, files |-> 0]
    ELSE LET rest == ExpectedCounts(Tail(days))
             found == find_crop_b_root(fs_before, arg.model, Head(days), arg.drives)
             sr == scan(fs_before, found.path, arg.include_activemap)
         IN  IF ~found.found THEN [rest EXCEPT !.missing_days = @ + 1]
             ELSE [rest EXCEPT !.included = @ + sr.included_activemap_count,
                               !.missing = @ + sr.missing_activemap_count,
                               !.files = @ + count_files(sr.files_by_class)]

\* C11: when the pre-scan loop observes the cancellation after some days were
\* processed, fetch returns the stats accumulated so far: the missing-day
\* count and the secondary-included and secondary-missing counts are the sums
\* over the days processed before the cancellation, and no file was copied.
C11_PrescanCancelKeepsCounts ==
    (pc = "returned" /\ res.exit = "cancelled_prescan" /\ loc.day_i > 1) =>
        /\ res.stats.missing_days = ExpectedCounts(DaysProcessed).missing_days
        /\ res.stats.active_included = ExpectedCounts(DaysProcessed).included
        /\ res.stats.active_missing = ExpectedCounts(DaysProcessed).missing
        /\ res.stats.total_copied = 0
        /\ fsFiles = fs_before.files

\* the scans of the days that have a root, in day order, as the tree stood
\* when the call started
RECURSIVE ScansOf(_)
ScansOf(days) ==
    IF days = <<>> THEN <<>>
    ELSE LET found == find_crop_b_root(fs_before, arg.model, Head(days), arg.drives)
         IN  IF ~found.found THEN ScansOf(Tail(days))
             ELSE <<scan(fs_before, found.path, arg.include_activemap)>>
                  \o ScansOf(Tail(days))

\* what the uncancelled run does in its copy phase, step by step
FullPlan == copy_plan(ScansOf(arg.days))

\* the run of a list of copy-phase steps from a tree: the tree it leaves and
\* the copies it made, each with whether its destination existed right before
RECURSIVE RunOf(_, _)
RunOf(st, steps) ==
    IF steps = <<>> THEN st
    ELSE LET step == Head(steps)
             dest_dir == arg.out_dir \o <<step.class_name>>
             dst == dest_dir \o <<BaseName(step.src)>>
         IN  IF step.kind = "ensure_dir"
             THEN RunOf([st EXCEPT !.fs = mkdir_p(@, dest_dir)], Tail(steps))
             ELSE RunOf([fs |-> copy2(st.fs, step.src, dst),
                         copies |-> Append(st.copies,
                                      [class_name |-> step.class_name,
                                       name |-> BaseName(step.src),
                                       existed |-> exists(st.fs, dst)])],
                        Tail(steps))
RunFrom(steps) == RunOf([fs |-> mkdir_p(fs_before, arg.out_dir), copies |-> <<>>], steps)

\* the copies of a run that went to one class / that replaced a file
CopiesOfClass(copies, class_name) ==
    Cardinality({i \in 1..Len(copies) : copies[i].class_name = class_name})
CopiesOver(copies) == Cardinality({i \in 1..Len(copies) : copies[i].existed})
DetailCalls == SelectSeq(progress_log, LAMBDA c : c.kind = "detail")

\* C12: in the copy phase the cancel callback is polled before each file
\* copy; once a poll returns true no further file is copied and fetch returns
\* stats whose total_copied, total_overwritten and per_class_copied count
\* exactly the files copied before that poll: the cancelled fetch is a prefix
\* of the uncancelled run.
C12_CopyCancelIsPrefix ==
    (pc = "returned" /\ res.exit = "cancelled_copy") =>
        \E k \in 1..Len(FullPlan) :
            LET run == RunFrom(SubSeq(FullPlan, 1, k - 1))
            IN  /\ FullPlan[k].kind = "file"
                /\ CurFs = run.fs
                /\ res.stats.total_copied = Len(run.copies)
                /\ res.stats.total_copied = Len(DetailCalls)
                /\ res.stats.total_overwritten = CopiesOver(run.copies)
                /\ DOMAIN res.stats.per_class_copied
                      = {run.copies[i].class_name : i \in 1..Len(run.copies)}
                /\ \A c \in DOMAIN res.stats.per_class_copied :
                      res.stats.per_class_copied[c] = CopiesOfClass(run.copies, c)

\* C12 witness: the cancellation is seen after two copies to one class, the
\* first of them over a file of an earlier run, with files still to copy
C12_Witness ==
    /\ pc = "returned"
    /\ res.exit = "cancelled_copy"
    /\ res.stats.total_copied = 2
    /\ res.stats.total_overwritten = 1
    /\ res.stats.per_class_copied = (CF_05_NG :> 2)
    /\ loc.step_i < Len(loc.plan)

\* the file steps of the uncancelled copy phase, in order
FileSteps == SelectSeq(FullPlan, LAMBDA st : st.kind = "file")

\* C13: within one fetch the progress callbacks are called with one constant
\* total and a done value that never decreases and grows by exactly 1 per
\* copied file; the fine callback fires once after every copy, with that
\* file's class and name, right before the coarse one; when the run is
\* neither cancelled nor failed the last progress call has done = total.
C13_ProgressMonotone ==
    LET steps == FileSteps
    IN
    pc \in {"prescan", "copy", "returned"} =>
        /\ \A i, j \in 1..Len(progress_log) : progress_log[i].total = progress_log[j].total
        /\ \A i \in 1..Len(progress_log) :
              LET before == Cardinality({j \in 1..i : progress_log[j].kind = "detail"})
              IN  /\ progress_log[i].done = before
                  /\ progress_log[i].kind = "detail" =>
                        /\ i < Len(progress_log)
                        /\ progress_log[i + 1] =
                              ProgressCall(progress_log[i].done, progress_log[i].total)
                        /\ before <= Len(steps)
                        /\ progress_log[i].class_name = steps[before].class_name
                        /\ progress_log[i].filename = BaseName(steps[before].src)
                  /\ (i > 1 /\ progress_log[i].kind = "progress"
                            /\ progress_log[i - 1].kind = "progress") =>
                        (pc = "returned" /\ res.exit = "cancelled_copy"
                                         /\ i = Len(progress_log))
        /\ pc = "copy" => Len(DetailCalls) = loc.total_copied
        /\ (pc = "returned" /\ res.exit \in {"done", "nothing_to_copy"}) =>
              /\ progress_log /= <<>>
              /\ progress_log[Len(progress_log)].kind = "progress"
              /\ progress_log[Len(progress_log)].done
                    = progress_log[Len(progress_log)].total
              /\ progress_log[Len(progress_log)].total = Len(steps)
              /\ Len(DetailCalls) = Len(steps)

\* C13 witness: a run of two days ends uncancelled after three copies to two
\* classes, the last progress call being (3, 3)
C13_Witness ==
    /\ pc = "returned"
    /\ res.exit = "done"
    /\ Len(DetailCalls) = 3
    /\ DetailCalls[3].class_name = CF_06_ROI
    /\ DetailCalls[1].class_name = CF_05_NG
    /\ progress_log[Len(progress_log)] = ProgressCall(3, 3)

\* where a pre-scanned file goes: <outputRoot>/<class folder>/<filename>
DstOf(step) == arg.out_dir \o <<step.class_name>> \o <<BaseName(step.src)>>

\* the copies whose destination existed right before: it was there when the
\* call started or an earlier copy of the run went to it
OverwritingCopies ==
    LET steps == FileSteps
        dst == [i \in 1..Len(steps) |-> DstOf(steps[i])]
    IN  {i \in 1..Len(steps) :
            \/ exists(fs_before, dst[i])
            \/ \E j \in 1..(i - 1) : dst[j] = dst[i]}

\* the class lists of all scans that hold a file, in copy order
RECURSIVE AllEntries(_)
AllEntries(scans) ==
    IF scans = <<>> THEN <<>>
    ELSE Head(scans).files_by_class \o AllEntries(Tail(scans))
ClassLists == SelectSeq(AllEntries(ScansOf(arg.days)), LAMBDA e : e.files /= <<>>)

\* copy_overwrite applied to one class list after the other
RECURSIVE OverwriteAll(_, _)
OverwriteAll(st, lists) ==
    IF lists = <<>> THEN st
    ELSE LET r == copy_overwrite(st.fs, Head(lists).files,
                                 arg.out_dir \o <<Head(lists).class_name>>)
         IN  OverwriteAll([fs |-> r.fs, copied |-> st.copied + r.copied,
                           overwritten |-> st.overwritten + r.overwritten],
                          Tail(lists))

\* C14: after an uncancelled fetch every pre-scanned file is present at
\* <outputRoot>/<class folder>/<original filename>; where several days, or an
\* earlier run, supply the same class folder and filename the destination
\* holds the content of the last such day in the given day order; and
\* total_overwritten is the number of copies whose destination existed right
\* before the copy.  The run is the one copy_overwrite makes class by class.
C14_MergeByOverwrite ==
    LET steps == FileSteps
        dst == [i \in 1..Len(steps) |-> DstOf(steps[i])]
        dsts == {dst[i] : i \in 1..Len(steps)}
    IN
    (pc = "returned" /\ res.exit = "done") =>
        /\ \A i \in 1..Len(steps) :
              LET same == {j \in 1..Len(steps) : dst[j] = dst[i]}
                  last == CHOOSE j \in same : \A m \in same : m <= j
              IN  /\ is_file(CurFs, dst[i])
                  /\ fsFiles[dst[i]] = fs_before.files[steps[last].src]
        /\ \A q \in DOMAIN fs_before.files :
              q \notin dsts =>
                  /\ is_file(CurFs, q)
                  /\ fsFiles[q] = fs_before.files[q]
        /\ DOMAIN fsFiles = DOMAIN fs_before.files \cup dsts
        /\ res.stats.total_copied = Len(steps)
        /\ res.stats.total_overwritten = Cardinality(OverwritingCopies)
        /\ LET st == OverwriteAll([fs |-> mkdir_p(fs_before, arg.out_dir),
                                   copied |-> 0, overwritten |-> 0], ClassLists)
           IN  /\ CurFs = st.fs
               /\ res.stats.total_copied = st.copied
               /\ res.stats.total_overwritten = st.overwritten

\* C14 witness: both days and an earlier run supply 05_NG_CRITICAL /
\* C1_LOWER_B_L_SourceMap.jpg; the copy of the second day is what is left
C14_Witness ==
    /\ pc = "returned"
    /\ res.exit = "done"
    /\ arg.days = <<Day1, Day2>>
    /\ is_file(fs_before, OutDir \o <<CF_05_NG, N_L_Src>>)
    /\ fs_before.files[OutDir \o <<CF_05_NG, N_L_Src>>] = 9
    /\ fsFiles[OutDir \o <<CF_05_NG, N_L_Src>>] = 2
    /\ is_file(CurFs, OutDir \o <<CF_06_ROI, N_R_Src>>)
    /\ res.stats.total_overwritten = 2
    /\ res.stats.total_copied = 3

(***************************************************************************)
(* CsvClassSummarizer: normalize_class, summarize_b_area, summarize_files  *)
(***************************************************************************)
REGIONS == << Join(<<W_LOWER, W_B, W_L>>, "_"), Join(<<W_LOWER, W_B, W_R>>, "_"),
              Join(<<W_UPPER, W_B, W_L>>, "_"), Join(<<W_UPPER, W_B, W_R>>, "_") >>
RegionSet == {REGIONS[i] : i \in 1..Len(REGIONS)}
NAME_COLS == [r \in RegionSet |-> r \o <<"-","N","A","M","E">>]
CELL_ID_COL == <<"C","E","L","L","-","I","D">>

W_OK_ROI == <<"O","K","_","R","O","I">>
W_06_OK_ROI == <<"0","6","_">> \o W_OK_ROI
W_OK_ == <<"O","K","_">>
W_NG_ == <<"N","G","_">>

\* Optional[str]: None, or a string (which may be empty)
NoClass == [some |-> FALSE, val |-> <<>>]
SomeClass(s_up) == [some |-> TRUE, val |-> s_up]
\* "if not cls": None and "" are both skipped
Truthy(cls) == cls.some /\ cls.val /= <<>>

normalize_class_keep_ok(name) ==
    LET s0 == Strip(name)
        s == IF Contains(s0, <<"_">>) /\ IsDigitStr(Split1(s0, "_")[1])
             THEN Strip(Split1(s0, "_")[2]) ELSE s0
    IN  IF name = <<>> \/ s0 = <<>> THEN NoClass ELSE SomeClass(Upper(s))

normalize_class(name) ==
    LET s0 == Strip(name)
        s == IF Contains(s0, <<"_">>) /\ IsDigitStr(Split1(s0, "_")[1])
             THEN Strip(Split1(s0, "_")[2]) ELSE s0
        s_up == Upper(s)
    IN  IF name = <<>> THEN NoClass
        ELSE IF s0 = <<>> THEN NoClass
        ELSE IF s_up \in {W_OK_ROI, W_06_OK_ROI} THEN SomeClass(W_OK_ROI)
        ELSE IF StartsWith(s_up, W_OK_) THEN NoClass
        ELSE IF StartsWith(s_up, W_NG_) THEN SomeClass(s_up)
        ELSE SomeClass(s_up)

\* (row.get(col) or "").strip(); a row is a function column name -> string
row_get(row, col) == Strip(IF col \in DOMAIN row THEN row[col] ELSE <<>>)

BAreaSummary(total_rows, total_cells, region_counts, cell_counts) ==
    [total_rows |-> total_rows, total_cells |-> total_cells,
     region_counts |-> region_counts, cell_counts |-> cell_counts]

RECURSIVE count_regions_dedup(_, _, _)
count_regions_dedup(acc, row, regions) ==
    IF regions = <<>> THEN acc
    ELSE LET region == Head(regions)
             cls == normalize_class(row_get(row, NAME_COLS[region]))
             rc == IF cls.val \in DOMAIN acc.region_counts THEN acc.region_counts
                   ELSE acc.region_counts @@ (cls.val :> [r \in RegionSet |-> 0])
         IN  IF ~Truthy(cls) \/ cls.val \in acc.classes_in_row
             THEN count_regions_dedup(acc, row, Tail(regions))
             ELSE count_regions_dedup(
                    [region_counts |-> [rc EXCEPT ![cls.val][region] = @ + 1],
                     classes_in_row |-> acc.classes_in_row \cup {cls.val}],
                    row, Tail(regions))

\* the loop over REGIONS for one row: region_counts and classes_in_row
RECURSIVE count_regions(_, _, _)
count_regions(acc, row, regions) ==
    IF regions = <<>> THEN acc
    ELSE LET region == Head(regions)
             cls == normalize_class(row_get(row, NAME_COLS[region]))
             rc == IF cls.val \in DOMAIN acc.region_counts THEN acc.region_counts
                   ELSE acc.region_counts @@ (cls.val :> [r \in RegionSet |-> 0])
         IN  IF ~Truthy(cls) THEN count_regions(acc, row, Tail(regions))
             ELSE count_regions(
                    [region_counts |-> [rc EXCEPT ![cls.val][region] = @ + 1],
                     classes_in_row |-> acc.classes_in_row \cup {cls.val}],
                    row, Tail(regions))

\* the body of summarize_b_area's loop for one row
summarize_row_every_hit(l, row) ==
    LET cell_id == row_get(row, CELL_ID_COL)
        acc == count_regions([region_counts |-> l.region_counts, classes_in_row |-> {}],
                             row, REGIONS)
        old == [c \in acc.classes_in_row |->
                   IF c \in DOMAIN l.cell_sets THEN l.cell_sets[c] ELSE {}]
    IN  [l EXCEPT
           !.total_rows = @ + 1,
           !.all_cells = IF cell_id /= <<>> THEN @ \cup {cell_id} ELSE @,
           !.region_counts = acc.region_counts,
           !.cell_sets = IF cell_id = <<>> THEN @
                         ELSE [c \in acc.classes_in_row |->
                                   old[c] \cup {<<l.total_rows, cell_id>>}] @@ @]

summarize_row(l, row) ==
    LET cell_id == row_get(row, CELL_ID_COL)
        acc == count_regions([region_counts |-> l.region_counts, classes_in_row |-> {}],
                             row, REGIONS)
        old == [c \in acc.classes_in_row |->
                   IF c \in DOMAIN l.cell_sets THEN l.cell_sets[c] ELSE {}]
    IN  [l EXCEPT
           !.total_rows = @ + 1,
           !.all_cells = IF cell_id /= <<>> THEN @ \cup {cell_id} ELSE @,
           !.region_counts = acc.region_counts,
           !.cell_sets = IF cell_id = <<>> THEN @
                         ELSE [c \in acc.classes_in_row |-> old[c] \cup {cell_id}] @@ @]

\* summarize_files' data for one class
class_payload(b, cls) ==
    [cells |-> IF cls \in DOMAIN b.cell_counts THEN b.cell_counts[cls] ELSE 0,
     occurrences |-> b.region_counts[cls][REGIONS[1]] + b.region_counts[cls][REGIONS[2]]
                     + b.region_counts[cls][REGIONS[3]] + b.region_counts[cls][REGIONS[4]],
     by_region |-> b.region_counts[cls]]

\* SummaryResult without its text; exit tells the three ways the call ends
SummaryResult(exit, file_count, data) ==
    [exit |-> exit, file_count |-> file_count, data |-> data]

(***************************************************************************)
(* Specification of a summary: result files with their rows in, one        *)
(* SummaryResult out                                                       *)
(***************************************************************************)
MaxRows == 2

Row(cell, lbl, lbr, ubl, ubr) ==
    (CELL_ID_COL :> cell) @@ (NAME_COLS[REGIONS[1]] :> lbl) @@ (NAME_COLS[REGIONS[2]] :> lbr)
    @@ (NAME_COLS[REGIONS[3]] :> ubl) @@ (NAME_COLS[REGIONS[4]] :> ubr)

S_X1 == <<"X","1">>
S_X2 == <<"X","2">>
S_02_NG_TORN == <<"0","2","_","N","G","_","T","O","R","N">>
S_ng_torn_pad == <<" ","n","g","_","t","o","r","n"," ">>
S_NG_TORN == <<"N","G","_","T","O","R","N">>
S_NG_FOLD == <<"N","G","_","F","O","L","D">>
S_01_OK_ANODE == <<"0","1","_","O","K","_","A","N","O","D","E">>
S_ok_cathode == <<"o","k","_","c","a","t","h","o","d","e">>
S_ETC == <<"e","t","c">>

\* rows of a result file; the last one lacks the CELL-ID column
RowSet ==
    { Row(S_X1, S_02_NG_TORN, <<>>, <<>>, <<>>),
      Row(S_X1, S_02_NG_TORN, <<>>, <<>>, S_ng_torn_pad),
      Row(<<" ">> \o S_X1 \o <<" ">>, <<>>, W_06_OK_ROI, W_OK_ROI, S_NG_TORN),
      Row(S_X2, S_01_OK_ANODE, S_ok_cathode, S_NG_TORN, <<>>),
      Row(<<>>, S_NG_FOLD, <<>>, <<>>, <<" ", " ">>),
      Row(S_X2, <<"0","6","_">> \o W_06_OK_ROI, <<"0","6","_">>, S_ETC, S_NG_FOLD),
      Row(S_X2, S_02_NG_TORN, <<>>, <<>>, <<>>),
      (NAME_COLS[REGIONS[1]] :> S_NG_TORN) }
RowLists == UNION {[1..n -> RowSet] : n \in 0..MaxRows}

\* a second result file: none, one that is not on disk, one of a type
\* iter_rows does not read, or one with a row
SecondFiles == { <<>>, <<[kind |-> "missing", rows |-> <<>>]>>,
                 <<[kind |-> "other", rows |-> <<>>]>>,
                 <<[kind |-> "csv", rows |-> <<Row(S_X1, <<>>, <<>>, S_NG_TORN, <<>>)>>]>> }

InitSummary ==
    /\ fsDirs = {}
    /\ fsFiles = <<>>
    /\ pc = "summarize"
    /\ \E rows \in RowLists, second \in SecondFiles, first \in BOOLEAN :
          arg = [paths |-> (IF first THEN <<[kind |-> "csv", rows |-> rows]>> ELSE <<>>)
                           \o second]
    /\ res = NoRes
    /\ ViewerIdle
    /\ FetchIdle

\* summarize_files up to its loop over the paths
SummarizeStart ==
    /\ pc = "summarize"
    /\ IF Len(arg.paths) = 0
       THEN /\ res' = SummaryResult("no_files", 0, <<>>)
            /\ pc' = "returned"
            /\ UNCHANGED <<loc, progress_log>>
       ELSE /\ progress_log' = Append(progress_log, ProgressCall(0, Len(arg.paths)))
            /\ loc' = [i |-> 1, existing |-> <<>>, file_i |-> 1, row_i |-> 1,
                       region_counts |-> <<>>, cell_sets |-> <<>>, all_cells |-> {},
                       total_rows |-> 0, b |-> BAreaSummary(0, 0, <<>>, <<>>)]
            /\ pc' = "check_files"
            /\ res' = res
    /\ UNCHANGED <<fsDirs, fsFiles, arg, cancel>>
    /\ UNCHANGED viewerVars

\* one round of the loop over the paths: a file that is not there is left out
CheckFile ==
    /\ pc = "check_files"
    /\ loc.i <= Len(arg.paths)
    /\ loc' = [loc EXCEPT !.i = @ + 1,
                          !.existing = IF arg.paths[loc.i].kind = "missing" THEN @
                                       ELSE Append(@, arg.paths[loc.i])]
    /\ progress_log' = Append(progress_log, ProgressCall(loc.i, Len(arg.paths)))
    /\ pc' = IF loc.i = Len(arg.paths) THEN "rows" ELSE pc
    /\ UNCHANGED <<fsDirs, fsFiles, arg, res, cancel>>
    /\ UNCHANGED viewerVars

\* summarize_b_area: one row of the current file is counted
ReadRow ==
    /\ pc = "rows"
    /\ loc.file_i <= Len(loc.existing)
    /\ loc.existing[loc.file_i].kind = "csv"
    /\ loc.row_i <= Len(loc.existing[loc.file_i].rows)
    /\ loc' = [summarize_row(loc, loc.existing[loc.file_i].rows[loc.row_i])
                 EXCEPT !.row_i = @ + 1]
    /\ UNCHANGED <<fsDirs, fsFiles, pc, arg, res, cancel, progress_log>>
    /\ UNCHANGED viewerVars

\* the rows of the current file are through: on to the next file
NextFile ==
    /\ pc = "rows"
    /\ loc.file_i <= Len(loc.existing)
    /\ loc.existing[loc.file_i].kind = "csv"
    /\ loc.row_i > Len(loc.existing[loc.file_i].rows)
    /\ loc' = [loc EXCEPT !.file_i = @ + 1, !.row_i = 1]
    /\ UNCHANGED <<fsDirs, fsFiles, pc, arg, res, cancel, progress_log>>
    /\ UNCHANGED viewerVars

\* iter_rows raises ValueError for a file that is neither .csv nor .xlsx/.xlsm
UnsupportedFile ==
    /\ pc = "rows"
    /\ loc.file_i <= Len(loc.existing)
    /\ loc.existing[loc.file_i].kind = "other"
    /\ res' = SummaryResult("raised", 0, <<>>)
    /\ pc' = "returned"
    /\ UNCHANGED <<fsDirs, fsFiles, arg>>
    /\ UNCHANGED viewerVars
    /\ UNCHANGED fetchVars

\* all files are read: cell_counts, the BAreaSummary b and the result's data
SummaryEnd ==
    /\ pc = "rows"
    /\ loc.file_i > Len(loc.existing)
    /\ LET b == BAreaSummary(loc.total_rows, Cardinality(loc.all_cells), loc.region_counts,
                             [cls \in DOMAIN loc.cell_sets |->
                                 Cardinality(loc.cell_sets[cls])])
           data == [total_rows |-> b.total_rows, total_cells |-> b.total_cells,
                    regions |-> REGIONS,
                    classes |-> [cls \in DOMAIN b.region_counts |-> class_payload(b, cls)]]
       IN  /\ res' = SummaryResult("done", Len(loc.existing), data)
           /\ loc' = [loc EXCEPT !.b = b]
    /\ pc' = "returned"
    /\ UNCHANGED <<fsDirs, fsFiles, arg, cancel, progress_log>>
    /\ UNCHANGED viewerVars

NextSummary ==
    \/ SummarizeStart
    \/ CheckFile
    \/ ReadRow
    \/ NextFile
    \/ UnsupportedFile
    \/ SummaryEnd

SpecSummary == InitSummary /\ [][NextSummary]_vars

(***************************************************************************)
(* Claims about the summarizer (checked under SpecSummary)                 *)
(***************************************************************************)
\* the rows of the files that are read, as <<file, row>> positions
RowsRead ==
    UNION {{<<f, r>> : r \in 1..Len(arg.paths[f].rows)} :
           f \in {g \in 1..Len(arg.paths) : arg.paths[g].kind = "csv"}}
RowAt(fr) == arg.paths[fr[1]].rows[fr[2]]
ColOf(row, col) == IF col \in DOMAIN row THEN row[col] ELSE <<>>

\* the regions of a row whose class column normalizes to c
RegionsNaming(row, c) ==
    {r \in RegionSet : normalize_class(ColOf(row, NAME_COLS[r])) = SomeClass(c)}
\* the cell identity of a row: its CELL-ID value, surrounding blanks dropped
CellOf(row) == Strip(ColOf(row, CELL_ID_COL))
\* every class some row names
ClassesNamed ==
    {c \in {normalize_class(ColOf(RowAt(fr), NAME_COLS[r])).val :
                fr \in RowsRead, r \in RegionSet} \ {<<>>} :
        \E fr \in RowsRead : RegionsNaming(RowAt(fr), c) /= {}}

\* C15: for each normalized class c summarizeUnique reports a unique-identity
\* count equal to the number of distinct non-blank CELL-ID values among the
\* rows in which at least one region column normalizes to c, so several rows
\* naming one class for one cell count once; occurrences count every
\* (row, region) hit.
C15_UniqueCellsPerClass ==
    (pc = "returned" /\ res.exit = "done") =>
        /\ DOMAIN res.data.classes = ClassesNamed
        /\ DOMAIN loc.b.cell_counts \subseteq ClassesNamed
        /\ \A c \in ClassesNamed :
              LET cells == {CellOf(RowAt(fr)) :
                               fr \in {x \in RowsRead : RegionsNaming(RowAt(x), c) /= {}}}
                           \ {<<>>}
                  hits == {<<fr, r>> \in RowsRead \X RegionSet :
                              r \in RegionsNaming(RowAt(fr), c)}
              IN  /\ res.data.classes[c].cells = Cardinality(cells)
                  /\ res.data.classes[c].occurrences = Cardinality(hits)
                  /\ c \in DOMAIN loc.b.cell_counts =>
                        loc.b.cell_counts[c] = Cardinality(cells)
                  /\ c \notin DOMAIN loc.b.cell_counts => cells = {}

\* C15 witness: two rows name 02_NG_TORN in LOWER_B_L for cell X1: NG_TORN
\* has occurrences 2 and unique-identity count 1
C15_Witness ==
    /\ pc = "returned"
    /\ res.exit = "done"
    /\ arg.paths = <<[kind |-> "csv",
                      rows |-> <<Row(S_X1, S_02_NG_TORN, <<>>, <<>>, <<>>),
                                 Row(S_X1, S_02_NG_TORN, <<>>, <<>>, <<>>)>>]>>
    /\ res.data.classes[S_NG_TORN].occurrences = 2
    /\ res.data.classes[S_NG_TORN].cells = 1
    /\ loc.b.cell_counts = (S_NG_TORN :> 1)

\* the class-column values of the rows read
NamesRead == {ColOf(RowAt(fr), NAME_COLS[r]) : fr \in RowsRead, r \in RegionSet}

\* a value trimmed, without its numeric prefix, upper-cased
Prepared(name) ==
    LET t == Strip(name)
    IN  Upper(IF Contains(t, <<"_">>) /\ IsDigitStr(SubSeq(t, 1, FirstPos(t, "_") - 1))
              THEN SubSeq(t, FirstPos(t, "_") + 1, Len(t)) ELSE t)

\* C16: class-name normalization maps "06_OK_ROI" and "OK_ROI" to "OK_ROI",
\* discards every other value that starts with "OK_" once trimmed, stripped
\* of its numeric prefix and upper-cased, and keeps "NG_" values upper-cased;
\* so no class key starting with "OK_" other than "OK_ROI" appears in the
\* region counts or the unique-identity counts of a summary.
C16_OnlyOkRoiKept ==
    /\ normalize_class(W_06_OK_ROI) = SomeClass(W_OK_ROI)
    /\ normalize_class(W_OK_ROI) = SomeClass(W_OK_ROI)
    /\ normalize_class(S_01_OK_ANODE) = NoClass
    /\ pc \in {"summarize", "check_files", "rows", "returned"} =>
          \A name \in NamesRead :
              /\ (StartsWith(Prepared(name), W_OK_) /\ Prepared(name) /= W_OK_ROI)
                    => normalize_class(name) = NoClass
              /\ Prepared(name) = W_OK_ROI => normalize_class(name) = SomeClass(W_OK_ROI)
              /\ StartsWith(Prepared(name), W_NG_)
                    => normalize_class(name) = SomeClass(Prepared(name))
    /\ (pc \in {"rows", "returned"} /\ loc /= NoRes) =>
          \A c \in DOMAIN loc.region_counts \cup DOMAIN loc.cell_sets
                   \cup DOMAIN loc.b.region_counts \cup DOMAIN loc.b.cell_counts
                   \cup (IF res /= NoRes /\ res.exit = "done"
                         THEN DOMAIN res.data.classes ELSE {}) :
              StartsWith(c, W_OK_) => c = W_OK_ROI

\* C16 witness: rows naming 01_OK_ANODE, ok_cathode, NG_TORN, 06_OK_ROI and
\* OK_ROI end in a summary whose classes are NG_TORN and OK_ROI only
C16_Witness ==
    /\ pc = "returned"
    /\ res.exit = "done"
    /\ {S_01_OK_ANODE, S_ok_cathode, W_06_OK_ROI, W_OK_ROI} \subseteq NamesRead
    /\ DOMAIN res.data.classes = {S_NG_TORN, W_OK_ROI}
    /\ DOMAIN loc.b.cell_counts = {S_NG_TORN, W_OK_ROI}
    /\ res.data.classes[W_OK_ROI].occurrences = 2

\* C17: when no day has a file to copy (also when every day's root is
\* missing) fetch reports progress (0, 0), never enters the copy phase,
\* creates no class directory under outputRoot and returns stats with
\* total_copied = 0 and missing_days = the number of days without a root.
C17_NothingToCopy ==
    /\ pc = "copy" => FileSteps /= <<>>
    /\ (pc = "returned" /\ FileSteps = <<>> /\ res.exit /= "cancelled_prescan") =>
          /\ res.exit = "nothing_to_copy"
          /\ progress_log = <<ProgressCall(0, 0)>>
          /\ fsDirs = fs_before.dirs \cup Prefixes(arg.out_dir)
          /\ fsFiles = fs_before.files
          /\ res.stats.total_copied = 0
          /\ res.stats.total_overwritten = 0
          /\ res.stats.per_class_copied = <<>>
          /\ res.stats.missing_days = ExpectedCounts(arg.days).missing_days
          /\ res.stats.missing_days
                = Cardinality({i \in 1..Len(arg.days) :
                     ~is_dir(fs_before, crop_b_candidate(<<"E">>, arg.model, arg.days[i]))
                     /\ ~is_dir(fs_before, crop_b_candidate(<<"F">>, arg.model, arg.days[i]))})

\* C17 witness: one day has no root, the other has class folders without a
\* primary file; the output root did not exist
C17_Witness ==
    /\ pc = "returned"
    /\ res.exit = "nothing_to_copy"
    /\ arg.days = <<Day2, Day1>>
    /\ res.stats.missing_days = 1
    /\ is_dir(fs_before, SourceRoot(Day1) \o <<CF_05_NG>>)
    /\ ~is_dir(fs_before, OutDir)
    /\ fsDirs = fs_before.dirs \cup {OutDir}

\* the positions of the uncancelled copy phase at which the step fails
FailingSteps ==
    {k \in 1..Len(FullPlan) :
        /\ RunFrom(SubSeq(FullPlan, 1, k - 1)).fs.ok
        /\ ~RunFrom(SubSeq(FullPlan, 1, k)).fs.ok}

\* C18: a failure in the middle of the copy phase is not caught by fetch:
\* the call ends in a failure and returns no FetchStats, the files copied
\* before it stay in the output tree; a cancellation, in contrast, returns
\* stats as a normal result; a run that returns its final stats met no
\* failure.
C18_CopyFailurePropagates ==
    /\ (pc = "returned" /\ res.exit = "raised") =>
          /\ res.stats = NoStats
          /\ \E k \in FailingSteps :
                LET run == RunFrom(SubSeq(FullPlan, 1, k - 1))
                IN  /\ fsFiles = run.fs.files
                    /\ fsDirs = run.fs.dirs
                    /\ Len(DetailCalls) = Len(run.copies)
                    /\ \A i \in 1..Len(run.copies) :
                          is_file(CurFs, arg.out_dir \o <<run.copies[i].class_name,
                                                         run.copies[i].name>>)
    /\ (pc = "returned" /\ res.exit \in {"cancelled_prescan", "cancelled_copy"}) =>
          /\ res.stats /= NoStats
          /\ res.stats.total_copied = Len(DetailCalls)
    /\ (pc = "returned" /\ res.exit = "done") => FailingSteps = {}

\* C18 witness: the first file of the class is copied, the copy of the second
\* fails on a folder lying at its destination
C18_Witness ==
    /\ pc = "returned"
    /\ res.exit = "raised"
    /\ is_dir(fs_before, OutDir \o <<CF_05_NG, N_L_Act, N_L_Act>>)
    /\ ~is_file(fs_before, OutDir \o <<CF_05_NG, N_L_Src>>)
    /\ is_file(CurFs, OutDir \o <<CF_05_NG, N_L_Src>>)
    /\ Len(DetailCalls) = 1

(***************************************************************************)
(* Claims about what the filename parser rejects (checked under SpecParse) *)
(***************************************************************************)
\* a map-type marker stands immediately before the extension: the name
\* without its extension ends in _SourceMap or _ActiveMap (any letter case)
MarkerBeforeExt(name) ==
    \E m \in {W_SourceMap, W_ActiveMap} :
        EndsWith(Lower(Stem(name)), <<"_">> \o Lower(m))

\* C19: parse rejects every filename in which neither map-type marker stands
\* immediately before the file extension, and every filename that does not
\* end in .jpg, .jpeg or .png; a marker elsewhere in the name does not make
\* the filename acceptable.
C19_RejectsMisplacedMarker ==
    (pc = "parsed" /\ (~MarkerBeforeExt(arg.name) \/ ~has_image_ext(Lower(arg.name))))
        => ~res.ok

\* the part of C19 about the extension alone
RejectsOtherExtensions ==
    (pc = "parsed" /\ ~has_image_ext(Lower(arg.name))) => ~res.ok

\* the exact shape <side marker>[_<numeric>]_B_<L|R> directly after the first
\* LOWER/UPPER part: its side letter, <<>> when the shape is not there
exact_side(parts, idx) ==
    LET j == after_digit(parts, idx)
    IN  IF j + 1 <= Len(parts) /\ parts[j] = W_B /\ parts[j + 1] \in {W_L, W_R}
        THEN parts[j + 1] ELSE <<>>

\* the side letter of the two strategies: the exact shape, else the window
either_side(parts, idx) ==
    IF exact_side(parts, idx) /= <<>> THEN exact_side(parts, idx)
    ELSE window_side(parts, idx)

\* C20: whenever the exact shape <side marker>[_<numeric>]_B_<L|R> is not found
\* directly after the first LOWER/UPPER token (also when the token in the B
\* position is "B" but the next one is not L or R), parse falls back to the
\* window of the side-marker token plus the next 5 tokens and uses the first
\* adjacent ("B", L|R) pair in it; it rejects only when neither strategy
\* yields a side letter.
C20_FallbackWhenShapeMissing ==
    LET lower == Lower(arg.name)
        parts == Split(Stem(arg.name), "_")
        idx == side_index(parts)
        side == either_side(parts, idx)
    IN  (pc = "parsed" /\ has_image_ext(lower) /\ map_type_of(lower) /= <<>> /\ idx > 0) =>
            /\ res.ok <=> side /= <<>>
            /\ res.ok => res.region = Join(<<parts[idx], W_B, side>>, "_")

\* the fallback as far as it does hold: when the part in the B position is
\* not "B" the window decides
FallbackWhenNoBToken ==
    LET lower == Lower(arg.name)
        parts == Split(Stem(arg.name), "_")
        idx == side_index(parts)
        j == after_digit(parts, idx)
    IN  (/\ pc = "parsed" /\ has_image_ext(lower) /\ map_type_of(lower) /= <<>>
         /\ idx > 0 /\ ~(j <= Len(parts) /\ parts[j] = W_B)) =>
            /\ res.ok <=> window_side(parts, idx) /= <<>>
            /\ res.ok => res.region = Join(<<parts[idx], W_B, window_side(parts, idx)>>, "_")

(***************************************************************************)
(* The key-to-folder lookup of the index (checked under SpecIndex)         *)
(***************************************************************************)
\* index.class_key_to_folder.get(class_key.strip().upper()), None for an
\* empty class_key
resolve_folder_for_class_key(index, class_key) ==
    LET key == Upper(Strip(class_key))
    IN  IF class_key = <<>> THEN NoClass
        ELSE IF key \in DOMAIN index.class_key_to_folder
             THEN SomeClass(index.class_key_to_folder[key])
             ELSE NoClass

\* the folder names directly under the output root, in sorted iteration order
SortedFolders ==
    LET dirs == class_dirs(CurFs, arg.out_dir)
    IN  [i \in 1..Len(dirs) |-> BaseName(dirs[i])]

\* the positions of the folders that normalize to class key k
FoldersOfKey(k) ==
    {i \in 1..Len(SortedFolders) : normalize_class_folder(SortedFolders[i]) = k}

\* C21: when several class folders under the output root normalize to the
\* same class key, the key-to-folder lookup maps the key to the first such
\* folder in sorted iteration order; the later colliding folders are absent
\* from the lookup, while their occurrences still appear under their own
\* folder name in the classes mapping.
C21_FirstFolderWins ==
    (pc = "built" /\ is_dir(CurFs, arg.out_dir)) =>
        /\ DOMAIN view_index.class_key_to_folder
              = {normalize_class_folder(SortedFolders[i]) : i \in 1..Len(SortedFolders)}
        /\ \A k \in DOMAIN view_index.class_key_to_folder :
              LET first == CHOOSE i \in FoldersOfKey(k) : \A j \in FoldersOfKey(k) : i <= j
              IN  /\ view_index.class_key_to_folder[k] = SortedFolders[first]
                  /\ resolve_folder_for_class_key(view_index, k)
                        = SomeClass(SortedFolders[first])
        /\ \A i \in 1..Len(SortedFolders) :
              bucket_keys(CurFs, arg.out_dir \o <<SortedFolders[i]>>) /= {}
                  => SortedFolders[i] \in DOMAIN view_index.classes

\* what the lookup does hold: the last folder of a key in sorted iteration
\* order, and every folder with a parsed file keeps its own classes entry
LastFolderWins ==
    (pc = "built" /\ is_dir(CurFs, arg.out_dir)) =>
        /\ \A k \in DOMAIN view_index.class_key_to_folder :
              LET last == CHOOSE i \in FoldersOfKey(k) : \A j \in FoldersOfKey(k) : j <= i
              IN  resolve_folder_for_class_key(view_index, k) = SomeClass(SortedFolders[last])
        /\ \A i \in 1..Len(SortedFolders) :
              bucket_keys(CurFs, arg.out_dir \o <<SortedFolders[i]>>) /= {}
                  => /\ SortedFolders[i] \in DOMAIN view_index.classes
                     /\ \A n \in 1..Len(view_index.classes[SortedFolders[i]]) :
                           view_index.classes[SortedFolders[i]][n].class_folder
                              = SortedFolders[i]

(***************************************************************************)
(* Specification of an undo made after the tree has changed: one label is  *)
(* applied, then the class folder may be deleted, a later fetch may copy a *)
(* file to the original path, the moved file may be deleted, and the       *)
(* action is undone                                                        *)
(***************************************************************************)
InitRestore ==
    /\ \E present \in SUBSET DOMAIN LabelTree, stale \in SUBSET DOMAIN StaleReview :
          LET t == TreeOf(Restrict(LabelTree, present) @@ Restrict(StaleReview, stale))
          IN  /\ fsDirs = t.dirs \cup {OutDir, OutDir \o <<CF_05_NG>>}
              /\ fsFiles = t.files
    /\ \E last \in Listings(CurFs, OutDir) :
          view_index = build_view_index(CurFs, OutDir, last)
    /\ pc = "indexed"
    /\ arg = [out_dir |-> OutDir]
    /\ res = NoCall
    /\ res_before = NoCall
    /\ fs_before = NoRes
    /\ undo_stack = <<>>
    /\ issued = {}
    /\ nops = 0
    /\ FetchIdle

\* _hotkey_label on an occurrence shown in the list (it has a primary path)
RestoreLabel ==
    /\ pc = "indexed"
    /\ \E it \in all_items(view_index), label \in Label :
          /\ it.source_path /= NoPath
          /\ LET r == apply_label(CurFs, it, label, human_root_from_output(arg.out_dir))
             IN  /\ fsDirs' = r.fs.dirs
                 /\ fsFiles' = r.fs.files
                 /\ res' = [op |-> "apply", occ |-> it, label |-> label,
                            err |-> r.err, action |-> r.value,
                            src_content |-> fsFiles[it.source_path]]
                 /\ undo_stack' = IF r.err = "" THEN <<r.value>> ELSE <<>>
                 /\ issued' = IF r.err = "" THEN {r.value} ELSE {}
                 /\ pc' = IF r.err = "" THEN "labelled" ELSE "failed"
    /\ res_before' = res
    /\ fs_before' = CurFs
    /\ nops' = nops + 1
    /\ UNCHANGED <<arg, view_index>>
    /\ UNCHANGED fetchVars

\* the class folder of the labelled file is deleted with all it holds
ClassFolderRemoved ==
    /\ pc = "labelled"
    /\ LET folder == Parent(undo_stack[1].src_path)
       IN  /\ is_dir(CurFs, folder)
           /\ fsDirs' = {d \in fsDirs : ~IsPrefix(folder, d)}
           /\ fsFiles' = [q \in {x \in DOMAIN fsFiles : ~IsPrefix(folder, x)} |-> fsFiles[q]]
    /\ UNCHANGED <<pc, arg, res, res_before, fs_before, view_index, undo_stack,
                   issued, nops>>
    /\ UNCHANGED fetchVars

\* a later fetch copies a file of the same class and name to the original path
FileAppears ==
    /\ pc = "labelled"
    /\ LET src == undo_stack[1].src_path
           f1 == _ensure_dir(CurFs, Parent(src))
       IN  /\ ~is_file(CurFs, src)
           /\ fsDirs' = f1.dirs
           /\ fsFiles' = f1.files @@ (src :> 7)
    /\ UNCHANGED <<pc, arg, res, res_before, fs_before, view_index, undo_stack,
                   issued, nops>>
    /\ UNCHANGED fetchVars

\* the moved file is deleted from the review tree
MovedFileRemoved ==
    /\ pc = "labelled"
    /\ is_file(CurFs, undo_stack[1].dst_path)
    /\ LET f1 == unlink(CurFs, undo_stack[1].dst_path)
       IN  /\ fsDirs' = f1.dirs
           /\ fsFiles' = f1.files
    /\ UNCHANGED <<pc, arg, res, res_before, fs_before, view_index, undo_stack,
                   issued, nops>>
    /\ UNCHANGED fetchVars

\* _hotkey_undo: pop the action and undo it
RestoreUndo ==
    /\ pc = "labelled"
    /\ LET action == undo_stack[Len(undo_stack)]
           r == undo(CurFs, action)
       IN  /\ fsDirs' = r.fs.dirs
           /\ fsFiles' = r.fs.files
           /\ res' = [op |-> "undo", occ |-> NoRes, label |-> action.label,
                      err |-> r.err, action |-> action, src_content |-> 0]
    /\ undo_stack' = SubSeq(undo_stack, 1, Len(undo_stack) - 1)
    /\ res_before' = res
    /\ fs_before' = CurFs
    /\ nops' = nops + 1
    /\ pc' = "undone"
    /\ UNCHANGED <<arg, view_index, issued>>
    /\ UNCHANGED fetchVars

NextRestore ==
    \/ RestoreLabel
    \/ ClassFolderRemoved
    \/ FileAppears
    \/ MovedFileRemoved
    \/ RestoreUndo

SpecRestore == InitRestore /\ [][NextRestore]_vars

\* C22: when the moved-to file exists, undo puts it back at the action's
\* original path even if the original path's parent directory was removed
\* since the label (it is recreated) or another file has appeared at the
\* original path (it is deleted and replaced); afterwards the original path
\* holds the labelled file's content and the moved-to path holds no file.
C22_UndoRestoresOverChanges ==
    (pc = "undone" /\ is_file(fs_before, res.action.dst_path)) =>
        /\ res.err = ""
        /\ is_dir(CurFs, Parent(res.action.src_path))
        /\ is_file(CurFs, res.action.src_path)
        /\ fsFiles[res.action.src_path] = res_before.src_content
        /\ fsFiles[res.action.src_path] = fs_before.files[res.action.dst_path]
        /\ ~exists(CurFs, res.action.dst_path)

\* C22 witness: the class folder was deleted and a later fetch put another
\* file at the original path; the undo replaced it with the labelled file
C22_Witness ==
    /\ pc = "undone"
    /\ is_file(fs_before, res.action.dst_path)
    /\ is_file(fs_before, res.action.src_path)
    /\ fs_before.files[res.action.src_path] = 7
    /\ ~is_file(fs_before, OutDir \o <<CF_05_NG, N_L_Act>>)
    /\ res_before.occ.active_path /= NoPath
    /\ fsFiles[res.action.src_path] = res_before.src_content

(***************************************************************************)
(* Specification of the viewer tab: its index, its occurrence list, its    *)
(* undo stack and its log, driven by Refresh Index and the three hotkeys.  *)
(* loc holds the widgets' state, progress_log the viewer log: one entry    *)
(* per [LABEL-MOVE] / [UNDO] line, standing for the action the line is     *)
(* written from.                                                           *)
(***************************************************************************)
MaxViewerOps == 4

\* _rebuild_occ_list with region "All" and an empty search: the items of the
\* selected class folder whose primary file, if they name one, exists
OccList(index, folder, f) ==
    IF folder \in DOMAIN index.classes
    THEN {it \in {index.classes[folder][i] : i \in 1..Len(index.classes[folder])} :
             it.source_path = NoPath \/ exists(f, it.source_path)}
    ELSE {}

\* sorted(self._index.classes.keys()), row 0 selected; <<>> for an empty list
FirstClass(index) ==
    IF DOMAIN index.classes = {} THEN <<>>
    ELSE CHOOSE n \in DOMAIN index.classes :
            \A m \in DOMAIN index.classes : StrLeq(n, m)

LogLine(kind, action) == [kind |-> kind, action |-> action]

InitViewer ==
    /\ \E has_active \in BOOLEAN, stale \in SUBSET DOMAIN StaleReview :
          LET present == IF has_active THEN DOMAIN LabelTree
                         ELSE (DOMAIN LabelTree) \ {OutDir \o <<CF_05_NG, N_L_Act>>}
              t == TreeOf(Restrict(LabelTree, present) @@ Restrict(StaleReview, stale))
          IN  /\ fsDirs = t.dirs
              /\ fsFiles = t.files
    /\ pc = "viewer"
    /\ arg = [out_dir |-> OutDir]
    /\ res = NoCall
    /\ res_before = NoCall
    /\ fs_before = NoRes
    /\ view_index = EmptyIndex(OutDir)
    /\ undo_stack = <<>>
    /\ issued = {}
    /\ nops = 0
    /\ loc = [folder |-> <<>>, occ_list |-> {}]
    /\ cancel = FALSE
    /\ progress_log = <<>>

\* rebuild_index and _on_index_ready: the index is built anew, the first
\* class folder is selected and its occurrences are listed
ViewerRefresh ==
    /\ pc = "viewer"
    /\ \E last \in Listings(CurFs, arg.out_dir) :
          LET idx == build_view_index(CurFs, arg.out_dir, last)
          IN  /\ view_index' = idx
              /\ loc' = [folder |-> FirstClass(idx),
                         occ_list |-> OccList(idx, FirstClass(idx), CurFs)]
    /\ UNCHANGED <<fsDirs, fsFiles, pc, arg, res, res_before, fs_before,
                   undo_stack, issued, nops, cancel, progress_log>>

\* _hotkey_label on the selected occurrence
ViewerLabel ==
    /\ pc = "viewer"
    /\ nops < MaxViewerOps
    /\ \E it \in loc.occ_list, label \in Label :
          LET r == apply_label(CurFs, it, label, human_root_from_output(arg.out_dir))
          IN  /\ fsDirs' = r.fs.dirs
              /\ fsFiles' = r.fs.files
              /\ res' = [op |-> "apply", occ |-> it, label |-> label,
                         err |-> r.err, action |-> r.value,
                         src_content |-> IF is_file(CurFs, it.source_path)
                                         THEN fsFiles[it.source_path] ELSE 0]
              /\ IF r.err = ""
                 THEN /\ undo_stack' = Append(undo_stack, r.value)
                      /\ progress_log' = Append(progress_log, LogLine("label", r.value))
                      /\ loc' = [loc EXCEPT !.occ_list = @ \ {it}]
                 ELSE UNCHANGED <<undo_stack, progress_log, loc>>
    /\ res_before' = res
    /\ fs_before' = CurFs
    /\ nops' = nops + 1
    /\ UNCHANGED <<pc, arg, view_index, issued, cancel>>

ViewerUndo_peek ==
    /\ pc = "viewer"
    /\ nops < MaxViewerOps
    /\ undo_stack /= <<>>
    /\ LET action == undo_stack[Len(undo_stack)]
           r == undo(CurFs, action)
           folder == IF action.class_folder \in DOMAIN view_index.classes
                     THEN action.class_folder ELSE loc.folder
       IN  /\ fsDirs' = r.fs.dirs
           /\ fsFiles' = r.fs.files
           /\ res' = [op |-> "undo", occ |-> NoRes, label |-> action.label,
                      err |-> r.err, action |-> action, src_content |-> 0]
           /\ IF r.err = ""
              THEN /\ progress_log' = Append(progress_log, LogLine("undo", action))
                   /\ loc' = [folder |-> folder,
                              occ_list |-> OccList(view_index, folder, r.fs)]
              ELSE UNCHANGED <<progress_log, loc>>
    /\ undo_stack' = undo_stack
    /\ res_before' = res
    /\ fs_before' = CurFs
    /\ nops' = nops + 1
    /\ UNCHANGED <<pc, arg, view_index, issued, cancel>>

\* _hotkey_undo with a non-empty stack: the last action is popped and undone,
\* the class folder of the action is selected and its occurrences are listed
ViewerUndo ==
    /\ pc = "viewer"
    /\ nops < MaxViewerOps
    /\ undo_stack /= <<>>
    /\ LET action == undo_stack[Len(undo_stack)]
           r == undo(CurFs, action)
           folder == IF action.class_folder \in DOMAIN view_index.classes
                     THEN action.class_folder ELSE loc.folder
       IN  /\ fsDirs' = r.fs.dirs
           /\ fsFiles' = r.fs.files
           /\ res' = [op |-> "undo", occ |-> NoRes, label |-> action.label,
                      err |-> r.err, action |-> action, src_content |-> 0]
           /\ IF r.err = ""
              THEN /\ progress_log' = Append(progress_log, LogLine("undo", action))
                   /\ loc' = [folder |-> folder,
                              occ_list |-> OccList(view_index, folder, r.fs)]
              ELSE UNCHANGED <<progress_log, loc>>
    /\ undo_stack' = SubSeq(undo_stack, 1, Len(undo_stack) - 1)
    /\ res_before' = res
    /\ fs_before' = CurFs
    /\ nops' = nops + 1
    /\ UNCHANGED <<pc, arg, view_index, issued, cancel>>

\* _hotkey_undo with an empty stack: returns at once
ViewerUndoEmpty ==
    /\ pc = "viewer"
    /\ nops < MaxViewerOps
    /\ undo_stack = <<>>
    /\ res' = [op |-> "undo_ignored", occ |-> NoRes, label |-> <<>>,
               err |-> "", action |-> NoAction, src_content |-> 0]
    /\ res_before' = res
    /\ fs_before' = CurFs
    /\ nops' = nops + 1
    /\ UNCHANGED <<fsDirs, fsFiles, pc, arg, view_index, undo_stack, issued,
                   loc, cancel, progress_log>>

NextViewer == ViewerRefresh \/ ViewerLabel \/ ViewerUndo \/ ViewerUndoEmpty

SpecViewer == InitViewer /\ [][NextViewer]_vars

(***************************************************************************)
(* Claims about the viewer's undo stack (checked under SpecViewer)         *)
(***************************************************************************)
\* the stack that the logged labels and undos leave: a label pushes its
\* action, an undo pops
RECURSIVE Replay(_)
Replay(log) ==
    IF log = <<>> THEN <<>>
    ELSE LET before == Replay(SubSeq(log, 1, Len(log) - 1))
             line == log[Len(log)]
         IN  IF line.kind = "label" THEN Append(before, line.action)
             ELSE SubSeq(before, 1, Len(before) - 1)

\* every undo so far was made with the most recently pushed action that was
\* still on the stack, so each push is undone at most once
EachUndoPopsTop ==
    \A i \in 1..Len(progress_log) :
        progress_log[i].kind = "undo" =>
            LET before == Replay(SubSeq(progress_log, 1, i - 1))
            IN  /\ before /= <<>>
                /\ progress_log[i].action = before[Len(before)]

\* the run so far is k labels of distinct occurrences followed by k undos
LabelsThenUndos(k) ==
    /\ Len(progress_log) = 2 * k
    /\ nops = 2 * k
    /\ \A i \in 1..k : progress_log[i].kind = "label"
    /\ \A i \in (k + 1)..(2 * k) : progress_log[i].kind = "undo"
    /\ \A i, j \in 1..k :
          i /= j => progress_log[i].action.src_path /= progress_log[j].action.src_path

\* one step of the viewer obeys the stack discipline
StackStep ==
    /\ (nops' = nops + 1 /\ res'.op = "apply" /\ res'.err = "") =>
          undo_stack' = Append(undo_stack, res'.action)
    /\ (nops' = nops + 1 /\ res'.op = "apply" /\ res'.err /= "") =>
          undo_stack' = undo_stack
    /\ (nops' = nops + 1 /\ res'.op = "undo") =>
          /\ undo_stack /= <<>>
          /\ res'.action = undo_stack[Len(undo_stack)]
          /\ undo_stack' = SubSeq(undo_stack, 1, Len(undo_stack) - 1)
    /\ (nops' = nops + 1 /\ res'.op = "undo_ignored") =>
          /\ undo_stack = <<>>
          /\ UNCHANGED <<fsDirs, fsFiles, undo_stack, progress_log>>
    /\ nops' = nops => undo_stack' = undo_stack

\* C23: the viewer's undo stack is last-labeled-first-undone: every successful
\* label pushes exactly one LabelAction, every undo on a non-empty stack pops
\* exactly the most recently pushed remaining action and passes it to the
\* engine's undo exactly once, an undo on an empty stack does nothing; hence
\* no LabelAction is undone twice, and after k labels of distinct occurrences
\* followed by k undos every labelled file is back at its original path and
\* the stack is empty.
C23_UndoStackIsLifo ==
    /\ [][StackStep]_vars
    /\ [](/\ undo_stack = Replay(progress_log)
          /\ EachUndoPopsTop
          /\ \A k \in 1..MaxViewerOps :
                LabelsThenUndos(k) =>
                    /\ undo_stack = <<>>
                    /\ \A i \in 1..k :
                          LET a == progress_log[i].action
                          IN  /\ is_file(CurFs, a.src_path)
                              /\ fsFiles[a.src_path] = LabelTree[a.src_path]
                              /\ ~exists(CurFs, a.dst_path))

\* C23 witness: two occurrences were labelled and both labels undone, the
\* later label first
C23_Witness ==
    /\ LabelsThenUndos(2)
    /\ progress_log[3].action = progress_log[2].action
    /\ progress_log[4].action = progress_log[1].action
    /\ undo_stack = <<>>

(***************************************************************************)
(* Occurrence counts of a summary (checked under SpecSummary)              *)
(***************************************************************************)
\* the rows read whose region-r column normalizes to class c
RowsNamingIn(c, r) == {fr \in RowsRead : r \in RegionsNaming(RowAt(fr), c)}

\* C24: occurrence counts are not deduplicated: region_counts[c][r] is the
\* number of rows whose region-r column normalizes to class c, so one row
\* naming the same normalized class in two regions adds 2 to the class's
\* occurrences (1 in each region) but only 1 to its unique-identity count.
C24_OccurrencesNotDeduplicated ==
    (pc = "returned" /\ res.exit = "done") =>
        /\ DOMAIN loc.b.region_counts = ClassesNamed
        /\ \A c \in ClassesNamed :
              /\ \A r \in RegionSet :
                    /\ loc.b.region_counts[c][r] = Cardinality(RowsNamingIn(c, r))
                    /\ res.data.classes[c].by_region[r] = Cardinality(RowsNamingIn(c, r))
              /\ res.data.classes[c].occurrences
                    = Cardinality({<<fr, r>> \in RowsRead \X RegionSet :
                                      fr \in RowsNamingIn(c, r)})
              /\ res.data.classes[c].cells
                    <= Cardinality({fr \in RowsRead :
                                       /\ RegionsNaming(RowAt(fr), c) /= {}
                                       /\ CellOf(RowAt(fr)) /= <<>>})

\* C24 witness: one row names NG_TORN in LOWER_B_L (as 02_NG_TORN) and in
\* UPPER_B_R (as " ng_torn "): occurrences 2, one per region, one cell
C24_Witness ==
    /\ pc = "returned"
    /\ res.exit = "done"
    /\ arg.paths = <<[kind |-> "csv",
                      rows |-> <<Row(S_X1, S_02_NG_TORN, <<>>, <<>>, S_ng_torn_pad)>>]>>
    /\ res.data.classes[S_NG_TORN].occurrences = 2
    /\ res.data.classes[S_NG_TORN].by_region[REGIONS[1]] = 1
    /\ res.data.classes[S_NG_TORN].by_region[REGIONS[4]] = 1
    /\ res.data.classes[S_NG_TORN].cells = 1

(***************************************************************************)
(* CsvAutofind                                                             *)
(***************************************************************************)
\* d.strftime("%Y%m%d")
yyyymmdd(d) == ZeroPad(NatStr(d.year), 4) \o ZeroPad(NatStr(d.month), 2)
               \o ZeroPad(NatStr(d.day), 2)

W_dot_csv == <<".","c","s","v">>
W_defect_csv == <<"_","d","e","f","e","c","t",".","c","s","v">>
W_WELDING == <<" ","W","E","L","D","I","N","G"," ","V","I","S","I","O","N","(">>

\* name.lower().endswith("_defect.csv")
_is_ignored_csv(path) == EndsWith(Lower(BaseName(path)), W_defect_csv)

\* Path.glob with a pattern of literal characters and "*" (any run of
\* characters, the empty one included)
RECURSIVE GlobMatch(_, _)
GlobMatch(pat, s) ==
    IF pat = <<>> THEN s = <<>>
    ELSE IF Head(pat) = "*"
         THEN \E k \in 0..Len(s) : GlobMatch(Tail(pat), SubSeq(s, k + 1, Len(s)))
         ELSE s /= <<>> /\ Head(s) = Head(pat) /\ GlobMatch(Tail(pat), Tail(s))

glob(f, dir, pat) == {p \in iterdir(f, dir) : GlobMatch(pat, BaseName(p))}

\* "#*-* WELDING VISION(*)_<model>_<d>.csv" and the same with "_*" after <d>
pat_base(model, d) ==
    <<"#", "*", "-", "*">> \o W_WELDING \o <<"*", ")", "_">> \o model \o <<"_">> \o d
    \o W_dot_csv
pat_suffix(model, d) ==
    <<"#", "*", "-", "*">> \o W_WELDING \o <<"*", ")", "_">> \o model \o <<"_">> \o d
    \o <<"_", "*">> \o W_dot_csv

\* int(s) for a string of digits
RECURSIVE StrToNat(_)
StrToNat(s) ==
    IF s = <<>> THEN 0
    ELSE 10 * StrToNat(SubSeq(s, 1, Len(s) - 1)) + (IndexIn(s[Len(s)], Digits) - 1)

\* sort_key(p): (n, name.lower()), n the number after the last "_" of the
\* name without ".csv" when that text is all digits, else 0
sort_key(p) ==
    LET name == BaseName(p)
        stem == IF EndsWith(Lower(name), W_dot_csv) THEN SubSeq(name, 1, Len(name) - 4)
                ELSE name
        tail == SubSeq(stem, LastPos(stem, "_") + 1, Len(stem))
        n == IF Contains(stem, <<"_">>) /\ IsDigitStr(tail) THEN StrToNat(tail) ELSE 0
    IN  <<n, Lower(name)>>

KeyLess(a, b) == a[1] < b[1] \/ (a[1] = b[1] /\ StrLess(a[2], b[2]))

\* sorted(uniq, key=sort_key); paths of one directory with equal keys have
\* names that differ in letter case only, and sorted keeps them in the
\* order the set yields them, which is any
SortedByKey(S) ==
    {sq \in [1..Cardinality(S) -> S] :
        /\ \A i, j \in 1..Cardinality(S) : i /= j => sq[i] /= sq[j]
        /\ \A i, j \in 1..Cardinality(S) :
              i < j => ~KeyLess(sort_key(sq[j]), sort_key(sq[i]))}

\* the files find_csvs_for_day sorts
csv_uniq(f, csv_dir, model, day) ==
    LET d == yyyymmdd(day)
        hits == glob(f, csv_dir, pat_base(Strip(model), d))
                \cup glob(f, csv_dir, pat_suffix(Strip(model), d))
    IN  {p \in hits : is_file(f, p) /\ ~_is_ignored_csv(p)}

(***************************************************************************)
(* Specification of the result-file finder: a folder, a model and a day    *)
(* in, the list of result files out                                        *)
(***************************************************************************)
MaxCsvFiles == 3

W_csv == <<"c","s","v">>
CsvDir == <<W_csv>>
\* <line> WELDING VISION(<polarity>)_<model>_<rest>
CsvName(line, polarity, model, rest) ==
    <<"#">> \o line \o W_WELDING \o polarity \o <<")", "_">> \o model \o <<"_">> \o rest

W_JF3 == <<"J","F","3">>
L_5_2 == <<"5","-","2">>
D_0127 == yyyymmdd(Day1)
D_1103 == yyyymmdd(Day2)
F_Base == CsvName(L_5_2, <<"-">>, W_JF2, D_0127 \o W_dot_csv)
F_BasePlus == CsvName(L_5_2, <<"+">>, W_JF2, D_0127 \o W_dot_csv)
F_1 == CsvName(L_5_2, <<"-">>, W_JF2, D_0127 \o <<"_","1">> \o W_dot_csv)
F_2 == CsvName(L_5_2, <<"+">>, W_JF2, D_0127 \o <<"_","2">> \o W_dot_csv)
F_10 == CsvName(L_5_2, <<"-">>, W_JF2, D_0127 \o <<"_","1","0">> \o W_dot_csv)
F_Defect == CsvName(L_5_2, <<"-">>, W_JF2, D_0127 \o W_defect_csv)
F_1_DEFECT == CsvName(L_5_2, <<"-">>, W_JF2, D_0127 \o <<"_","1">> \o Upper(W_defect_csv))
F_OtherDay == CsvName(L_5_2, <<"-">>, W_JF2, D_1103 \o W_dot_csv)
F_OtherModel == CsvName(L_5_2, <<"-">>, W_JF3, D_0127 \o W_dot_csv)
\* a name both patterns match
F_Twice == CsvName(L_5_2, <<>>, W_JF2,
                   D_0127 \o <<"_", ")", "_">> \o W_JF2 \o <<"_">> \o D_0127 \o W_dot_csv)
\* a folder named like a result file
F_3 == CsvName(L_5_2, <<"-">>, W_JF2, D_0127 \o <<"_","3">> \o W_dot_csv)

CsvFileNames == {F_Base, F_BasePlus, F_1, F_2, F_10, F_Defect, F_1_DEFECT,
                 F_OtherDay, F_OtherModel, F_Twice}
CsvTrees == {S \in SUBSET CsvFileNames : Cardinality(S) <= MaxCsvFiles}
CsvModels == {W_JF2, <<" ">> \o W_JF2 \o <<" ">>, <<" ">>}

InitCsv ==
    /\ \E names \in CsvTrees, has_dir \in BOOLEAN :
          /\ fsDirs = {CsvDir} \cup (IF has_dir THEN {CsvDir \o <<F_3>>} ELSE {})
          /\ fsFiles = [p \in {CsvDir \o <<n>> : n \in names} |-> 1]
    /\ \E model \in CsvModels, day \in Days :
          arg = [csv_dir |-> CsvDir, model |-> model, day |-> day]
    /\ pc = "find"
    /\ res = NoRes
    /\ ViewerIdle
    /\ FetchIdle

\* find_csvs_for_day with a model: the sorted list
FindCsvs ==
    /\ pc = "find"
    /\ Strip(arg.model) /= <<>>
    /\ \E sq \in SortedByKey(csv_uniq(CurFs, arg.csv_dir, arg.model, arg.day)) :
          res' = [err |-> "", value |-> sq]
    /\ pc' = "found"
    /\ UNCHANGED <<fsDirs, fsFiles, arg>>
    /\ UNCHANGED viewerVars
    /\ UNCHANGED fetchVars

\* find_csvs_for_day with a blank model: ValueError
FindCsvsNoModel ==
    /\ pc = "find"
    /\ Strip(arg.model) = <<>>
    /\ res' = [err |-> "ValueError", value |-> <<>>]
    /\ pc' = "found"
    /\ UNCHANGED <<fsDirs, fsFiles, arg>>
    /\ UNCHANGED viewerVars
    /\ UNCHANGED fetchVars

NextCsv == FindCsvs \/ FindCsvsNoModel

SpecCsv == InitCsv /\ [][NextCsv]_vars

\* the result files of the model and day of the call: named
\* <line> WELDING VISION(<polarity>)_<model>_<date>[_<suffix>].csv
Matching ==
    LET d == yyyymmdd(arg.day)
        m == Strip(arg.model)
    IN  {p \in DOMAIN fsFiles :
            /\ Parent(p) = arg.csv_dir
            /\ \/ GlobMatch(pat_base(m, d), BaseName(p))
               \/ GlobMatch(pat_suffix(m, d), BaseName(p))}

\* the number N of a file named ..._<date>_<N>.csv, 0 for the base file
\* ..._<date>.csv, -1 for any other name
SuffixNumber(p) ==
    LET d == yyyymmdd(arg.day)
        stem == SubSeq(BaseName(p), 1, Len(BaseName(p)) - 4)
        tail == SubSeq(stem, LastPos(stem, "_") + 1, Len(stem))
        head == SubSeq(stem, 1, LastPos(stem, "_") - 1)
    IN  IF EndsWith(stem, <<"_">> \o d) THEN 0
        ELSE IF IsDigitStr(tail) /\ EndsWith(head, <<"_">> \o d) THEN StrToNat(tail)
        ELSE -1

\* C25: find_csvs_for_day returns the matching result files for a (model,
\* day) without duplicates and without any file whose name ends in
\* _defect.csv, ordered with the base file (no _N suffix after the date)
\* first, followed by the _1, _2, ... suffixed files in increasing N.
C25_BaseFirstThenSuffixes ==
    (pc = "found" /\ res.err = "") =>
        /\ \A i, j \in 1..Len(res.value) : i /= j => res.value[i] /= res.value[j]
        /\ {res.value[i] : i \in 1..Len(res.value)}
              = {p \in Matching : ~EndsWith(BaseName(p), W_defect_csv)
                                  /\ ~EndsWith(Lower(BaseName(p)), W_defect_csv)}
        /\ \A i, j \in 1..Len(res.value) :
              (/\ i < j
               /\ SuffixNumber(res.value[i]) >= 0
               /\ SuffixNumber(res.value[j]) >= 0) =>
                  SuffixNumber(res.value[i]) <= SuffixNumber(res.value[j])

\* what does hold: no duplicates, no _defect.csv file, and the suffixed
\* files among themselves in increasing N
SuffixedInIncreasingOrder ==
    (pc = "found" /\ res.err = "") =>
        /\ \A i, j \in 1..Len(res.value) : i /= j => res.value[i] /= res.value[j]
        /\ {res.value[i] : i \in 1..Len(res.value)}
              = {p \in Matching : ~EndsWith(Lower(BaseName(p)), W_defect_csv)}
        /\ \A i, j \in 1..Len(res.value) :
              (/\ i < j
               /\ SuffixNumber(res.value[i]) > 0
               /\ SuffixNumber(res.value[j]) > 0) =>
                  SuffixNumber(res.value[i]) <= SuffixNumber(res.value[j])

FreshIndexes ==
    {build_view_index(CurFs, OutDir, last) : last \in Listings(CurFs, OutDir)}

\* the secondary files lying directly in a class folder with no primary file
\* of their occurrence beside them
LoneSecondaries ==
    {a \in DOMAIN fsFiles :
        /\ Len(a) = Len(OutDir) + 2
        /\ IsPrefix(OutDir, a)
        /\ EndsWith(BaseName(a), <<".">> \o W_jpg)
        /\ parse_image_filename(BaseName(a)).ok
        /\ parse_image_filename(BaseName(a)).map_type = W_ActiveMap
        /\ \A s \in FilesIn(Parent(a)) :
              ~(/\ EndsWith(BaseName(s), <<".">> \o W_jpg)
                /\ parse_image_filename(BaseName(s)).ok
                /\ parse_image_filename(BaseName(s)).map_type = W_SourceMap
                /\ parse_image_filename(BaseName(s)).cell_key
                      = parse_image_filename(BaseName(a)).cell_key
                /\ parse_image_filename(BaseName(s)).region
                      = parse_image_filename(BaseName(a)).region)}

\* C27: after any sequence of apply_label and undo operations a freshly built
\* ViewIndex lists a populated primary path only for primary files that sit
\* directly in their class folder: files moved into
\* <outputRoot>/HumanReview/<class>/<label>/ are never indexed and HumanReview
\* is never a key of the classes mapping, while an occurrence whose primary
\* was moved out but whose secondary remains is still listed, with an empty
\* primary path.
C27_IndexSkipsReviewTree ==
    pc = "viewer" =>
        \A idx \in FreshIndexes :
            /\ W_HumanReview \notin DOMAIN idx.classes
            /\ \A it \in all_items(idx) :
                  /\ it.source_path /= NoPath =>
                        /\ is_file(CurFs, it.source_path)
                        /\ Parent(it.source_path) = OutDir \o <<it.class_folder>>
                        /\ parse_image_filename(BaseName(it.source_path)).map_type
                              = W_SourceMap
                  /\ it.active_path /= NoPath =>
                        /\ is_file(CurFs, it.active_path)
                        /\ Parent(it.active_path) = OutDir \o <<it.class_folder>>
                  /\ it.class_folder /= W_HumanReview
            /\ \A p \in DOMAIN fsFiles :
                  IsPrefix(HumanRoot, p) =>
                      \A it \in all_items(idx) : it.source_path /= p /\ it.active_path /= p
            /\ \A a \in LoneSecondaries :
                  \E it \in all_items(idx) :
                      /\ it.class_folder = BaseName(Parent(a))
                      /\ it.cell_key = parse_image_filename(BaseName(a)).cell_key
                      /\ it.region = parse_image_filename(BaseName(a)).region
                      /\ it.source_path = NoPath
                      /\ it.active_path = a

\* C27 witness: a primary file was labelled and the index reloaded: the file
\* lies in the review tree, its occurrence is listed with the secondary only
C27_Witness ==
    /\ pc = "viewer"
    /\ res.op = "apply"
    /\ res.err = ""
    /\ res.occ.active_path /= NoPath
    /\ is_file(CurFs, res.action.dst_path)
    /\ IsPrefix(HumanRoot, res.action.dst_path)
    /\ \E it \in all_items(view_index) :
          /\ it.cell_key = res.occ.cell_key
          /\ it.region = res.occ.region
          /\ it.source_path = NoPath
          /\ it.active_path = res.occ.active_path

(***************************************************************************)
(* Primary and derived secondary filenames (checked under SpecParse)       *)
(***************************************************************************)
\* the filename the scanner derives for the secondary file of a primary one
DerivedActiveName(name) == BaseName(sourcemap_to_activemap_path(<<name>>))

\* the scanner collects the name as a primary file and parse accepts it
CollectedAndParsed ==
    /\ pc = "parsed"
    /\ EndsWith(arg.name, SOURCEMAP_SUFFIX)
    /\ res.ok

\* C28: for every primary filename that the scanner collects (name ending in
\* SourceMap.jpg) and that parse accepts, the secondary filename derived by
\* the scanner's suffix substitution is also accepted by parse, with the same
\* identity key and the same region code and with artifact kind ActiveMap;
\* this includes names in which the LOWER/UPPER token is the first token and
\* the identity key falls back to the stem.
C28_DerivedSecondaryParsesAlike ==
    CollectedAndParsed =>
        LET sec == parse_image_filename(DerivedActiveName(arg.name))
        IN  /\ sec.ok
            /\ sec.map_type = W_ActiveMap
            /\ sec.region = res.region
            /\ sec.cell_key = res.cell_key

\* what does hold: the derived name parses, to ActiveMap and the same region;
\* the identity key is the same when tokens stand before the LOWER/UPPER token
DerivedSecondaryParsesAlikeWithIdentity ==
    CollectedAndParsed =>
        LET sec == parse_image_filename(DerivedActiveName(arg.name))
        IN  /\ sec.ok
            /\ sec.map_type = W_ActiveMap
            /\ sec.region = res.region
            /\ arg.shape.pre /= <<>> => sec.cell_key = res.cell_key
            /\ arg.shape.pre = <<>> =>
                  /\ res.cell_key = Stem(arg.name)
                  /\ sec.cell_key = Stem(DerivedActiveName(arg.name))
                  /\ sec.cell_key /= res.cell_key

(***************************************************************************)
(* The counters of a returned FetchStats                                   *)
(***************************************************************************)
\* sum(per_class_copied.values())
RECURSIVE SumOfCounts(_)
SumOfCounts(per_class_copied) ==
    IF DOMAIN per_class_copied = {} THEN 0
    ELSE LET c == CHOOSE x \in DOMAIN per_class_copied : TRUE
         IN  per_class_copied[c]
             + SumOfCounts([x \in DOMAIN per_class_copied \ {c} |-> per_class_copied[x]])

\* the totals handed to the progress callbacks of this call
ProgressTotals == {progress_log[i].total : i \in DOMAIN progress_log}

FetchGaveStats == pc = "returned" /\ res.stats /= NoStats

\* C29: in every FetchStats value returned by fetch, total_copied equals the
\* sum of the per_class_copied values and total_overwritten <= total_copied;
\* when the run completes without cancellation, total_copied also equals the
\* total file count computed in the pre-scan phase, which is the total
\* passed to the progress callbacks.
C29_StatsCountersAgree ==
    /\ FetchGaveStats =>
          /\ res.stats.total_copied = SumOfCounts(res.stats.per_class_copied)
          /\ res.stats.total_overwritten <= res.stats.total_copied
    /\ (pc = "returned" /\ res.exit \in {"done", "nothing_to_copy"}) =>
          /\ res.stats.total_copied = loc.total_files
          /\ ProgressTotals = {loc.total_files}

\* a completed run that copied files of two classes and overwrote some but
\* not all of them
C29_Witness ==
    /\ pc = "returned"
    /\ res.exit = "done"
    /\ Cardinality(DOMAIN res.stats.per_class_copied) >= 2
    /\ res.stats.total_overwritten >= 1
    /\ res.stats.total_overwritten < res.stats.total_copied
    /\ res.stats.total_copied = loc.total_files

(***************************************************************************)
(* The class keys of a summary against those of the index (checked under   *)
(* SpecSummary: the names are the class-column values of the rows read)    *)
(***************************************************************************)
\* an output tree whose only class folder is named folder_name and holds one
\* primary image
TreeWithFolder(folder_name) == TreeOf((OutDir \o <<folder_name, N_L_Src>>) :> 1)

\* the index ViewerTab holds after indexing that tree
IndexOfFolder(folder_name) ==
    LET f == TreeWithFolder(folder_name)
        last == CHOOSE l \in Listings(f, OutDir) : TRUE
    IN  build_view_index(f, OutDir, last)

\* the names of the rows read that normalize_class keeps
NamesKept == {n \in NamesRead : normalize_class(n).some}

\* C30: the two class-name normalizers agree: for every name that the CSV
\* normalizer (normalize_class) does not discard, its result equals the class
\* key that the index builder (normalize_class_folder) computes for the same
\* name, so a class key shown in a summary resolves through the ViewIndex
\* key-to-folder lookup to a folder of that name whenever such a folder was
\* indexed.
C30_NormalizersAgree ==
    (pc = "returned" /\ res.exit = "done") =>
        /\ \A n \in NamesKept : normalize_class(n).val = normalize_class_folder(n)
        /\ \A n \in NamesKept :
              normalize_class(n).val \in DOMAIN res.data.classes =>
                  resolve_folder_for_class_key(IndexOfFolder(n), normalize_class(n).val)
                      = SomeClass(n)

\* what does hold: the two agree on every kept name except one that still
\* reads 06_OK_ROI after its numeric prefix is dropped
NormalizersAgreeOffDoublePrefix ==
    (pc = "returned" /\ res.exit = "done") =>
        \A n \in NamesKept :
            IF normalize_class_folder(n) = W_06_OK_ROI
            THEN /\ normalize_class(n).val = W_OK_ROI
                 /\ resolve_folder_for_class_key(IndexOfFolder(n), W_OK_ROI) = NoClass
            ELSE /\ normalize_class(n).val = normalize_class_folder(n)
                 /\ normalize_class(n).val \in DOMAIN res.data.classes =>
                       resolve_folder_for_class_key(IndexOfFolder(n), normalize_class(n).val)
                           = SomeClass(n)
====
